---- MODULE Spec2Model ----
(***************************************************************************)
(* Verification model of the search core of the Porcupine chess engine:    *)
(* the transposition table (src/src/search/tt.rs), the score type          *)
(* (src/src/types/score.rs), the killer table (src/src/search/killers.rs), *)
(* the history table (src/src/search/history.rs) and the time manager      *)
(* (src/src/search/limits.rs).                                             *)
(*                                                                         *)
(* Every component is a state machine of its own (SpecTT, SpecFull,        *)
(* SpecNew, SpecScore, SpecKillers, SpecHistory, SpecTime); Spec is their  *)
(* interleaving.  The variables last..., fresh and searches record the     *)
(* history the properties talk about; the code does not keep them.         *)
(***************************************************************************)
EXTENDS Integers, Sequences, FiniteSets, TLC

VARIABLES
    entries,      \* tt.rs TranspositionTable.entries, the slots some hash of Hashes indexes
    generation,   \* tt.rs TranspositionTable.generation : u8
    size_mb,      \* tt.rs TranspositionTable.size_mb
    num_entries,  \* entries.len()
    searches,     \* ghost: new_search() calls since creation, clear or resize
    fresh,        \* ghost: slots written by a store since the last new_search/clear/resize
    lastTT,       \* ghost: the last table operation, its arguments and what it saw
    lastScore,    \* ghost: the last to_tt/from_tt conversion, its arguments and results
    killers,      \* killers.rs KillerTable.killers
    lastKiller,   \* ghost: the last killer-table operation and the table before it
    table,        \* history.rs HistoryTable.table, the entries the modelled moves index
    lastHistory,  \* ghost: the last history-table operation
    tm,           \* limits.rs TimeManager
    lastLimits,   \* ghost: the SearchLimits and side tm was built from
    lastSee,      \* ghost: the capture handed to see.rs see_captured and what it returned
    lastOrder,    \* ghost: the move list handed to ordering.rs and the order it came back in
    evalBoard,    \* the board at the node being searched
    accumulator,  \* the NNUE state of the evaluator that evaluates evalBoard
    lastEval,     \* ghost: the move made and what update_move and evaluate did
    lastHce,      \* ghost: the board handed to SearchEvaluator::evaluate and the score returned
    frames,       \* qsearch.rs the quiescence calls in progress, the innermost last
    stopped,      \* Searcher::should_stop(): the stop flag is set or the hard limit is passed
    lastQs        \* ghost: the last step of quiescence

ttvars == <<entries, generation, size_mb, num_entries, searches, fresh, lastTT>>

scorevars == <<lastScore>>

killervars == <<killers, lastKiller>>

historyvars == <<table, lastHistory>>

timevars == <<tm, lastLimits>>

seevars == <<lastSee>>

ordervars == <<lastOrder>>

nnuevars == <<evalBoard, accumulator, lastEval>>

hcevars == <<lastHce>>

qsvars == <<frames, stopped, lastQs>>

vars == <<ttvars, scorevars, killervars, historyvars, timevars, seevars, ordervars, nnuevars, hcevars, qsvars>>

\* what a step of one component leaves alone
TTFrame == UNCHANGED <<scorevars, killervars, historyvars, timevars, seevars, ordervars, nnuevars, hcevars, qsvars>>

ScoreFrame == UNCHANGED <<ttvars, killervars, historyvars, timevars, seevars, ordervars, nnuevars, hcevars, qsvars>>

KillerFrame == UNCHANGED <<ttvars, scorevars, historyvars, timevars, seevars, ordervars, nnuevars, hcevars, qsvars>>

HistoryFrame == UNCHANGED <<ttvars, scorevars, killervars, timevars, seevars, ordervars, nnuevars, hcevars, qsvars>>

TimeFrame == UNCHANGED <<ttvars, scorevars, killervars, historyvars, seevars, ordervars, nnuevars, hcevars, qsvars>>

SeeFrame == UNCHANGED <<ttvars, scorevars, killervars, historyvars, timevars, ordervars, nnuevars, hcevars, qsvars>>

OrderFrame == UNCHANGED <<ttvars, scorevars, killervars, historyvars, timevars, seevars, nnuevars, hcevars, qsvars>>

NnueFrame == UNCHANGED <<ttvars, scorevars, killervars, historyvars, timevars, seevars, ordervars, hcevars, qsvars>>

HceFrame == UNCHANGED <<ttvars, scorevars, killervars, historyvars, timevars, seevars, ordervars, nnuevars, qsvars>>

QsFrame == UNCHANGED <<ttvars, scorevars, killervars, historyvars, timevars, seevars, ordervars, nnuevars, hcevars>>

(***************************************************************************)
(* Fixed-width integer casts                                               *)
(***************************************************************************)
\* `x as i16` of an i32 value: keep the low 16 bits, read as two's complement.
AsI16(x) ==
    LET m == x % 65536 IN IF m >= 32768 THEN m - 65536 ELSE m

\* `x as i8` of an i32 value.
AsI8(x) ==
    LET m == x % 256 IN IF m >= 128 THEN m - 256 ELSE m

\* u8::wrapping_add(x, 1)
WrappingAddU8(x) == (x + 1) % 256

RECURSIVE Pow2(_)
Pow2(n) == IF n = 0 THEN 1 ELSE 2 * Pow2(n - 1)

\* usize::next_power_of_two: the smallest power of two >= n (1 for n = 0).
RECURSIVE NextPow2From(_, _)
NextPow2From(n, p) == IF p >= n THEN p ELSE NextPow2From(n, 2 * p)

next_power_of_two(n) == NextPow2From(n, 1)

(***************************************************************************)
(* Transposition table: src/src/search/tt.rs                               *)
(***************************************************************************)
BoundTypes == {"None", "Exact", "LowerBound", "UpperBound"}

\* `bound as u8` for the #[repr(u8)] enum
BoundAsU8(b) ==
    CASE b = "None" -> 0
      [] b = "Exact" -> 1
      [] b = "LowerBound" -> 2
      [] b = "UpperBound" -> 3

\* impl From<u8> for BoundType
BoundFromU8(v) ==
    CASE v % 4 = 1 -> "Exact"
      [] v % 4 = 2 -> "LowerBound"
      [] v % 4 = 3 -> "UpperBound"
      [] OTHER -> "None"

NoMove == [none |-> TRUE]

MkMove(f, t, p) == [from |-> f, to |-> t, promo |-> p]

encode_move(m) ==
    IF m = NoMove THEN 0
    ELSE LET promo == CASE m.promo = "Knight" -> 1
                        [] m.promo = "Bishop" -> 2
                        [] m.promo = "Rook" -> 3
                        [] m.promo = "Queen" -> 4
                        [] OTHER -> 0
         IN m.from + (m.to * 64) + (promo * 4096)

decode_move(encoded) ==
    IF encoded = 0 THEN NoMove
    ELSE LET from_idx == encoded % 64
             to_idx == (encoded \div 64) % 64
             promo_bits == (encoded \div 4096) % 16
             promo == CASE promo_bits = 1 -> "Knight"
                        [] promo_bits = 2 -> "Bishop"
                        [] promo_bits = 3 -> "Rook"
                        [] promo_bits = 4 -> "Queen"
                        [] OTHER -> "NoPromo"
         IN MkMove(from_idx, to_idx, promo)

\* A 64-bit Zobrist hash, kept as the two bit fields the table reads:
\* hi = hash >> 48 (16 bits) and lo = hash mod 2^30 (the mask never reaches
\* further for the table sizes modelled).
MkHash(hi, lo) == [hi |-> hi, lo |-> lo]

\* size_of::<TTEntry>() for the #[repr(C)] struct u16,u16,i16,i8,u8
EntrySize == 8

\* TTEntry::default()
DefaultEntry ==
    [key |-> 0, best_move |-> 0, score |-> 0, depth |-> 0, bound_and_age |-> 0]

BrokenKeyEntryNew(hash, best_move, score, depth, bound, gen) ==
    [key |-> hash.lo % 65536,
     best_move |-> encode_move(best_move),
     score |-> AsI16(score),
     depth |-> AsI8(depth),
     bound_and_age |-> BoundAsU8(bound) + (((gen % 64) * 4) % 256)]

\* TTEntry::new
TTEntryNew(hash, best_move, score, depth, bound, gen) ==
    [key |-> hash.hi,
     best_move |-> encode_move(best_move),
     score |-> AsI16(score),
     depth |-> AsI8(depth),
     bound_and_age |-> BoundAsU8(bound) + (((gen % 64) * 4) % 256)]

matches(e, hash) == e.key = hash.hi

EntryBound(e) == BoundFromU8(e.bound_and_age)

EntryGeneration(e) == e.bound_and_age \div 4

EntryScore(e) == AsI16(e.score)

EntryDepth(e) == e.depth

EntryBestMove(e) == decode_move(e.best_move)

is_empty(e) == EntryBound(e) = "None"

\* The capacity TranspositionTable::new(size_mb) allocates.
NewNumEntries(mb) ==
    LET requested == (mb * 1024 * 1024) \div EntrySize
        rounded == next_power_of_two(requested) \div 2
    IN IF rounded >= 1024 THEN rounded ELSE 1024

\* TranspositionTable::index
index(hash) == hash.lo % num_entries

\* self.entries[i]; a slot no modelled hash indexes is never written
EntryAt(i) == IF i \in DOMAIN entries THEN entries[i] ELSE DefaultEntry

NoEntry == [none |-> TRUE]

\* TranspositionTable::probe
probe(hash) ==
    LET entry == EntryAt(index(hash))
    IN IF matches(entry, hash) /\ ~is_empty(entry) THEN entry ELSE NoEntry

\* the replacement test of TranspositionTable::store
should_replace(existing, depth) ==
    \/ is_empty(existing)
    \/ EntryGeneration(existing) # generation
    \/ depth >= existing.depth

hashfull_counting_empty ==
    LET sample_size == IF num_entries < 1000 THEN num_entries ELSE 1000
        used == Cardinality({i \in 0..(sample_size - 1) :
                    EntryGeneration(EntryAt(i)) = generation})
    IN (used * 1000) \div sample_size

\* TranspositionTable::hashfull
hashfull ==
    LET sample_size == IF num_entries < 1000 THEN num_entries ELSE 1000
        used == Cardinality({i \in DOMAIN entries :
                    /\ i < sample_size
                    /\ ~is_empty(entries[i])
                    /\ EntryGeneration(entries[i]) = generation})
    IN (used * 1000) \div sample_size

(***************************************************************************)
(* Inputs of the table operations                                          *)
(***************************************************************************)
\* Default for TranspositionTable: Self::new(16)
DefaultSizeMb == 16

\* the sizes resize() is called with: the minimum table and the default one
ResizeSizes == {0, DefaultSizeMb}

\* the hash of test_tt_basic, 0x123456789ABCDEF0: slot 752 of 1024, slot
\* 843504 of 2^20 (outside hashfull's sample)
H1 == MkHash(4660, 448585456)

\* a hash of slot 5
H2 == MkHash(1, 5)

\* a hash that collides with H2 in the slot and differs in the key
H3 == MkHash(2, 5 + 1048576)

Hashes == {H1, H2, H3}

\* e2e4
MvE2E4 == MkMove(12, 28, "NoPromo")

\* a7a8=Q
MvA7A8Q == MkMove(48, 56, "Queen")

\* the store() calls made on slot 5: hash, best move, score, depth, bound; the
\* last one has a depth that does not fit the entry's i8
SlotCalls ==
    { [hash |-> H2, mv |-> MvE2E4, score |-> 100, depth |-> 5, bound |-> "Exact"],
      [hash |-> H2, mv |-> NoMove, score |-> -50, depth |-> 3, bound |-> "LowerBound"],
      [hash |-> H3, mv |-> MvA7A8Q, score |-> 30995, depth |-> 3, bound |-> "UpperBound"],
      [hash |-> H2, mv |-> NoMove, score |-> 0, depth |-> 5, bound |-> "None"],
      [hash |-> H3, mv |-> NoMove, score |-> 0, depth |-> 200, bound |-> "Exact"] }

\* the same calls and one on the slot of H1
StoreCalls ==
    SlotCalls \cup
    { [hash |-> H1, mv |-> MvE2E4, score |-> 100, depth |-> 5, bound |-> "Exact"] }

\* new_search() calls per table lifetime in SpecTT: the generation tag of an
\* entry has 6 bits, so the 64th call is the first to roll it
MaxSearches == 64

\* new_search() calls per table lifetime in SpecFull
MaxFullSearches == 2

\* the slots the modelled hashes index in a table of n entries
SlotsOf(n) == { h.lo % n : h \in Hashes }

(***************************************************************************)
(* Table operations                                                        *)
(***************************************************************************)
\* TranspositionTable::new(mb): entries zeroed, generation 0
TTNew(mb, op) ==
    /\ num_entries' = NewNumEntries(mb)
    /\ entries' = [i \in SlotsOf(NewNumEntries(mb)) |-> DefaultEntry]
    /\ generation' = 0
    /\ size_mb' = mb
    /\ searches' = 0
    /\ fresh' = {}
    /\ lastTT' = [op |-> op]
    /\ TTFrame

TTInit ==
    /\ num_entries = NewNumEntries(DefaultSizeMb)
    /\ entries = [i \in SlotsOf(NewNumEntries(DefaultSizeMb)) |-> DefaultEntry]
    /\ generation = 0
    /\ size_mb = DefaultSizeMb
    /\ searches = 0
    /\ fresh = {}
    /\ lastTT = [op |-> "new"]

\* TranspositionTable::new_search
NewSearch(max) ==
    /\ searches < max
    /\ generation' = WrappingAddU8(generation)
    /\ searches' = searches + 1
    /\ fresh' = {}
    /\ lastTT' = [op |-> "new_search"]
    /\ UNCHANGED <<entries, size_mb, num_entries>>
    /\ TTFrame

\* TranspositionTable::store
Store(c) ==
    LET idx == index(c.hash)
        existing == EntryAt(idx)
        replace == should_replace(existing, c.depth)
    IN /\ entries' = IF replace
                     THEN [entries EXCEPT ![idx] =
                              TTEntryNew(c.hash, c.mv, c.score, c.depth, c.bound, generation)]
                     ELSE entries
       /\ fresh' = IF replace THEN fresh \cup {idx} ELSE fresh
       /\ lastTT' = [op |-> "store", call |-> c, replaced |-> replace,
                     prevEmpty |-> is_empty(existing),
                     prevCurrent |-> (EntryGeneration(existing) = generation),
                     prevFresh |-> (idx \in fresh),
                     prevDepth |-> EntryDepth(existing),
                     prevFull |-> hashfull]
       /\ UNCHANGED <<generation, size_mb, num_entries, searches>>
       /\ TTFrame

\* TranspositionTable::clear
Clear ==
    /\ entries' = [i \in DOMAIN entries |-> DefaultEntry]
    /\ generation' = 0
    /\ searches' = 0
    /\ fresh' = {}
    /\ lastTT' = [op |-> "clear"]
    /\ UNCHANGED <<size_mb, num_entries>>
    /\ TTFrame

\* TranspositionTable::resize
Resize(mb) == TTNew(mb, "resize")

(***************************************************************************)
(* Properties of the transposition table                                   *)
(***************************************************************************)
\* what probe returned, read through the accessors, is what call c stored
StoredBack(c, e) ==
    /\ e # NoEntry
    /\ EntryScore(e) = c.score
    /\ EntryDepth(e) = c.depth
    /\ EntryBound(e) = c.bound
    /\ EntryBestMove(e) = c.mv

\* C1 as stated: right after store(h, move, score, depth, bound), probe(h)
\* returns an entry with that move, score, depth and bound (stated here for the
\* stores that write a bound other than None, the empty marker, and a depth
\* that fits the entry's i8).
C1_ProbeReturnsStored ==
    ( /\ lastTT.op = "store"
      /\ lastTT.call.bound # "None"
      /\ lastTT.call.depth \in -128..127 )
        => StoredBack(lastTT.call, probe(lastTT.call.hash))

\* C1 amended: right after a store(h, ...) with bound # None and a depth in
\* -128..127 that the replacement rule accepted (the slot was empty, or its
\* generation tag differed from the table's generation, or the new depth >=
\* its depth), probe(h) returns an entry with the stored move, score, depth
\* and bound.
C1_ProbeReturnsAcceptedStore ==
    ( /\ lastTT.op = "store"
      /\ lastTT.call.bound # "None"
      /\ lastTT.call.depth \in -128..127
      /\ \/ lastTT.prevEmpty
         \/ ~lastTT.prevCurrent
         \/ lastTT.call.depth >= lastTT.prevDepth )
    => StoredBack(lastTT.call, probe(lastTT.call.hash))

\* C1 witness: a store that overwrote a non-empty entry of the same generation
\* and is read back by probe.
C1_Witness ==
    /\ lastTT.op = "store"
    /\ lastTT.replaced /\ ~lastTT.prevEmpty /\ lastTT.prevCurrent
    /\ lastTT.call.bound # "None"
    /\ lastTT.call.hash = H3
    /\ StoredBack(lastTT.call, probe(H3))

\* C2: store replaces the slot's entry iff the slot is empty, or the entry was
\* written before the most recent new_search(), or the new depth >= the
\* entry's depth.
C2_DepthPreferredReplacement ==
    lastTT.op = "store" =>
        ( lastTT.replaced <=>
            \/ lastTT.prevEmpty
            \/ ~lastTT.prevFresh
            \/ lastTT.call.depth >= lastTT.prevDepth )

\* C3: the current generation is in 0..63, equals the number of new_search()
\* calls since creation or clear modulo 64, and equals the generation tag read
\* back from an entry stored now.
C3_GenerationRollsMod64 ==
    /\ generation \in 0..63
    /\ generation = searches % 64
    /\ EntryGeneration(TTEntryNew(H2, NoMove, 0, 0, "Exact", generation)) = generation

\* the slots of hashfull's sample that hold a non-empty entry written since the
\* most recent new_search()
FreshUsed ==
    { i \in DOMAIN entries :
        /\ i < (IF num_entries < 1000 THEN num_entries ELSE 1000)
        /\ ~is_empty(entries[i])
        /\ i \in fresh }

\* C4: hashfull() is the permill of the sampled slots that are non-empty and
\* were written since the most recent new_search(); after any number of
\* new_search() calls a store with bound # None into one of the first 1000
\* slots makes hashfull() count that slot.
C4_HashfullCountsCurrentSearch ==
    /\ hashfull = (Cardinality(FreshUsed) * 1000)
                     \div (IF num_entries < 1000 THEN num_entries ELSE 1000)
    /\ ( /\ lastTT.op = "store"
         /\ lastTT.call.bound # "None"
         /\ index(lastTT.call.hash) < 1000 )
       => hashfull >= 1

\* C5 as stated: hashfull() is 0 for a fresh table, never exceeds 1000, and no
\* store lowers it.
C5_HashfullMonotone ==
    /\ hashfull <= 1000
    /\ lastTT.op \in {"new", "clear", "resize"} => hashfull = 0
    /\ lastTT.op = "store" => hashfull >= lastTT.prevFull

\* C5 amended: hashfull() is 0 for a fresh table, never exceeds 1000, and no
\* store with bound # None lowers it.
C5_HashfullMonotoneNonEmptyStores ==
    /\ hashfull <= 1000
    /\ lastTT.op \in {"new", "clear", "resize"} => hashfull = 0
    /\ (lastTT.op = "store" /\ lastTT.call.bound # "None")
          => hashfull >= lastTT.prevFull

\* C5 witness: a store raises hashfull() from 1 to 2 permill.
C5_Witness ==
    /\ lastTT.op = "store"
    /\ lastTT.call.bound # "None"
    /\ lastTT.prevFull = 1
    /\ hashfull = 2

RECURSIVE LargestPow2Le(_, _)
LargestPow2Le(n, p) == IF 2 * p > n THEN p ELSE LargestPow2Le(n, 2 * p)

\* C6: new(size_mb) allocates a power of two of entries, at least 1024, the
\* largest power of two not exceeding the requested count (size_mb MiB over
\* the entry size) whenever that is >= 1024; all entries are empty and the
\* generation is 0.
C6_CapacityRoundedDown ==
    lastTT.op \in {"new", "resize"} =>
        LET requested == (size_mb * 1024 * 1024) \div EntrySize
        IN /\ \E k \in 0..30 : num_entries = Pow2(k)
           /\ num_entries >= 1024
           /\ (requested >= 1024 => num_entries = LargestPow2Le(requested, 1))
           /\ \A i \in DOMAIN entries : is_empty(entries[i])
           /\ generation = 0

(***************************************************************************)
(* Score: src/src/types/score.rs                                           *)
(***************************************************************************)
SCORE_NONE == -32001

SCORE_INFINITY == 32000

SCORE_MATE == 31000

SCORE_MATE_IN_MAX == SCORE_MATE - 1000

SCORE_MATED_IN_MAX == (-SCORE_MATE) + 1000

\* the search recursion bound of crate::types
MAX_PLY == 128

\* Score(x as i16)
ScoreOf(x) == AsI16(x)

mate_in(ply) == ScoreOf(SCORE_MATE - ply)

mated_in(ply) == ScoreOf((-SCORE_MATE) + ply)

is_mate(s) == s >= SCORE_MATE_IN_MAX

is_mated(s) == s <= SCORE_MATED_IN_MAX

\* to_tt that leaves the scores of the side being mated as they are
to_tt_mate_only(s, ply) ==
    IF is_mate(s) THEN ScoreOf(s + ply) ELSE s

to_tt(s, ply) ==
    IF is_mate(s) THEN ScoreOf(s + ply)
    ELSE IF is_mated(s) THEN ScoreOf(s - ply)
    ELSE s

from_tt_unadjusted(s, ply) ==
    IF is_mate(s) THEN ScoreOf(s + ply)
    ELSE IF is_mated(s) THEN ScoreOf(s - ply)
    ELSE s

from_tt(s, ply) ==
    IF is_mate(s) THEN ScoreOf(s - ply)
    ELSE IF is_mated(s) THEN ScoreOf(s + ply)
    ELSE s

\* half-width of the windows of scores taken around each landmark
ScoreWindow == 3

\* the landmarks of the i16 range: its ends, the first values a ply below
\* MAX_PLY can push over them, the special constants and the mate thresholds
ScoreLandmarks ==
    { -32768, (-32768) + MAX_PLY, SCORE_NONE, -SCORE_INFINITY, -SCORE_MATE,
      SCORE_MATED_IN_MAX, -100, 0, 100, SCORE_MATE_IN_MAX, SCORE_MATE,
      SCORE_INFINITY, 32767 - MAX_PLY, 32767 }

Scores ==
    { s \in -32768..32767 :
        \E l \in ScoreLandmarks : s >= l - ScoreWindow /\ s <= l + ScoreWindow }

\* no conversion under way
ScoreInit == lastScore = [op |-> "none"]

\* a search node at `ply` holds the score s
ScoreInputs ==
    \E s \in Scores, ply \in 0..(MAX_PLY - 1) :
        lastScore = [op |-> "node", s |-> s, ply |-> ply]

\* the node stores its score through to_tt and reads it back through from_tt
RoundTrip ==
    /\ lastScore.op = "node"
    /\ lastScore' = [op |-> "round_trip", s |-> lastScore.s, ply |-> lastScore.ply,
                     stored |-> to_tt(lastScore.s, lastScore.ply),
                     restored |-> from_tt(to_tt(lastScore.s, lastScore.ply),
                                          lastScore.ply)]
    /\ ScoreFrame

\* C7 as stated: for every ply in [0, MAX_PLY) and every 16-bit score s,
\* s.to_tt(ply).from_tt(ply) = s.
C7_ScoreRoundTrip ==
    lastScore.op = "round_trip" => lastScore.restored = lastScore.s

\* C7 amended: for every ply in [0, MAX_PLY) and every score s with
\* -32768 + ply <= s <= 32767 - ply (so every s from NONE to INFINITY),
\* s.to_tt(ply).from_tt(ply) = s.
C7_ScoreRoundTripInRange ==
    ( /\ lastScore.op = "round_trip"
      /\ lastScore.s >= (-32768) + lastScore.ply
      /\ lastScore.s <= 32767 - lastScore.ply )
    => lastScore.restored = lastScore.s

\* C7 witness: INFINITY goes through the table at the deepest ply, is stored
\* shifted and comes back.
C7_Witness ==
    /\ lastScore.op = "round_trip"
    /\ lastScore.s = SCORE_INFINITY
    /\ lastScore.ply = MAX_PLY - 1
    /\ lastScore.stored = SCORE_INFINITY + (MAX_PLY - 1)
    /\ lastScore.restored = SCORE_INFINITY

(***************************************************************************)
(* Killer table: src/src/search/killers.rs                                 *)
(***************************************************************************)
NUM_KILLERS == 2

\* the moves of test_killer_store_and_get: e2e4, d2d4, g1f3
KillerMoves ==
    { MkMove(12, 28, "NoPromo"), MkMove(11, 27, "NoPromo"), MkMove(6, 21, "NoPromo") }

\* the plies the table is called with: the first, the one of the test, the
\* last, and one on each side outside the table
KillerPlies == {-1, 0, 5, MAX_PLY - 1, MAX_PLY}

\* `ply.raw() as usize >= MAX_PLY as usize`: a negative ply casts to a value
\* above 2^63
PlyOutOfRange(ply) == ply < 0 \/ ply >= MAX_PLY

\* KillerTable::new
KillerInit ==
    /\ killers = [p \in 0..(MAX_PLY - 1) |-> [k \in 0..(NUM_KILLERS - 1) |-> NoMove]]
    /\ lastKiller = [op |-> "new"]

KillerStoreNoShift(ply, mv) ==
    /\ killers' = IF PlyOutOfRange(ply) \/ killers[ply][0] = mv
                  THEN killers
                  ELSE [killers EXCEPT ![ply] = [@ EXCEPT ![0] = mv]]
    /\ lastKiller' = [op |-> "store", ply |-> ply, mv |-> mv, before |-> killers]
    /\ KillerFrame

\* store without the test for the move already in slot 0
KillerStoreAlways(ply, mv) ==
    /\ killers' = IF PlyOutOfRange(ply)
                  THEN killers
                  ELSE [killers EXCEPT ![ply] = [@ EXCEPT ![1] = killers[ply][0], ![0] = mv]]
    /\ lastKiller' = [op |-> "store", ply |-> ply, mv |-> mv, before |-> killers]
    /\ KillerFrame

\* KillerTable::store
KillerStore(ply, mv) ==
    /\ killers' = IF PlyOutOfRange(ply) \/ killers[ply][0] = mv
                  THEN killers
                  ELSE [killers EXCEPT ![ply] = [@ EXCEPT ![1] = killers[ply][0], ![0] = mv]]
    /\ lastKiller' = [op |-> "store", ply |-> ply, mv |-> mv, before |-> killers]
    /\ KillerFrame

\* KillerTable::get
KillerGet(ply) ==
    IF PlyOutOfRange(ply) THEN [k \in 0..(NUM_KILLERS - 1) |-> NoMove] ELSE killers[ply]

\* KillerTable::is_killer: the slot index, or -1 for None
is_killer(ply, mv) ==
    IF KillerGet(ply)[0] = mv THEN 0
    ELSE IF KillerGet(ply)[1] = mv THEN 1
    ELSE -1

\* KillerTable::clear
KillerClear ==
    /\ killers' = [p \in DOMAIN killers |-> [k \in 0..(NUM_KILLERS - 1) |-> NoMove]]
    /\ lastKiller' = [op |-> "clear"]
    /\ KillerFrame

\* C8: at a ply of the table, storing a move different from slot 0 puts it in
\* slot 0 and the previous slot 0 in slot 1; storing the move of slot 0 changes
\* nothing; the killers of every other ply are unchanged.
C8_KillerInsertion ==
    (lastKiller.op = "store" /\ ~PlyOutOfRange(lastKiller.ply)) =>
        LET p == lastKiller.ply
            old == lastKiller.before
        IN /\ lastKiller.mv # old[p][0] =>
                 /\ KillerGet(p)[0] = lastKiller.mv
                 /\ KillerGet(p)[1] = old[p][0]
           /\ lastKiller.mv = old[p][0] => KillerGet(p) = old[p]
           /\ \A q \in (0..(MAX_PLY - 1)) \ {p} : KillerGet(q) = old[q]

\* C8 witness: a third move stored at a ply whose two slots are taken: the
\* old slot 1 is dropped.
C8_Witness ==
    /\ lastKiller.op = "store"
    /\ lastKiller.ply = 5
    /\ lastKiller.before[5][0] # NoMove
    /\ lastKiller.before[5][1] # NoMove
    /\ lastKiller.mv \notin {lastKiller.before[5][0], lastKiller.before[5][1]}
    /\ killers[5][0] = lastKiller.mv
    /\ killers[5][1] = lastKiller.before[5][0]
    /\ killers[0][0] # NoMove

\* C27: after any sequence of store and clear calls, at every ply slot 1 is
\* non-empty only if slot 0 is non-empty, and when both are non-empty they
\* differ; store with a ply outside 0..MAX_PLY (negative ones included)
\* changes nothing, and get for such a ply returns two empty slots.
C27_KillerSlotsDistinct ==
    /\ \A p \in 0..(MAX_PLY - 1) :
          /\ killers[p][1] # NoMove => killers[p][0] # NoMove
          /\ (killers[p][0] # NoMove /\ killers[p][1] # NoMove) =>
                 killers[p][0] # killers[p][1]
    /\ (lastKiller.op = "store" /\ PlyOutOfRange(lastKiller.ply)) =>
          killers = lastKiller.before
    /\ \A p \in KillerPlies : PlyOutOfRange(p) =>
          \A k \in 0..(NUM_KILLERS - 1) : KillerGet(p)[k] = NoMove

\* C27 witness: a store at ply -1 into a table whose ply 0 has both slots
\* taken, reached by storing the move of slot 0 again and then another one
C27_Witness ==
    /\ lastKiller.op = "store"
    /\ lastKiller.ply = -1
    /\ killers = lastKiller.before
    /\ killers[0][0] # NoMove
    /\ killers[0][1] # NoMove
    /\ killers[0][0] # killers[0][1]
    /\ KillerGet(-1)[0] = NoMove

(***************************************************************************)
(* History table: src/src/search/history.rs                                *)
(***************************************************************************)
MaxI32 == (Pow2(30) - 1) + Pow2(30)

MinI32 == (-MaxI32) - 1

\* i32 addition in a release build: wraps modulo 2^32
WrappingAddI32(x, y) ==
    IF x > 0 /\ y > 0 /\ x > MaxI32 - y THEN (x + MinI32) + (y + MinI32)
    ELSE IF x < 0 /\ y < 0 /\ x < MinI32 - y THEN (x - MinI32) + (y - MinI32)
    ELSE x + y

\* x * n for n >= 0 in i32, wrapping modulo 2^32
RECURSIVE WrappingMulI32(_, _)
WrappingMulI32(x, n) ==
    IF n = 0 THEN 0
    ELSE LET h == WrappingMulI32(WrappingAddI32(x, x), n \div 2)
         IN IF n % 2 = 1 THEN WrappingAddI32(h, x) ELSE h

\* Rust's integer division truncates toward zero
TruncDiv(a, b) == IF a >= 0 THEN a \div b ELSE -((-a) \div b)

Abs(x) == IF x < 0 THEN -x ELSE x

\* i32::clamp
Clamp(x, lo, hi) == IF x < lo THEN lo ELSE IF x > hi THEN hi ELSE x

\* `let max = 16384` of HistoryTable::update
HISTORY_MAX == 16384

\* Color::index() of White
White == 0

\* e2e4 and g1f3 as [color][from][to] indices of the side to move
HistE2E4 == <<White, 12, 28>>

HistG1F3 == <<White, 6, 21>>

HistKeys == {HistE2E4, HistG1F3}

\* bonuses update() is called with: the ends of i32, the values next to
\* where the clamp cuts, and 0
HistBonuses == {MinI32, -(HISTORY_MAX + 1), 0, HISTORY_MAX - 1, HISTORY_MAX, MaxI32}

\* depths update_on_cutoff() is called with: 128 (its square is 16384, where
\* the clamp starts to cut) and 46341 (the first whose square overflows i32)
CutoffDepths == {0, 128, 46341}

\* the earlier-tried quiet moves handed to update_on_cutoff()
QuietLists == {<<>>, <<HistG1F3>>, <<HistE2E4, HistG1F3>>}

\* HistoryTable::new
HistoryInit ==
    /\ table = [k \in HistKeys |-> 0]
    /\ lastHistory = [op |-> "new"]

gravity_without_decay(old, bonus) ==
    old + Clamp(bonus, -HISTORY_MAX, HISTORY_MAX)

\* the new score HistoryTable::update writes
gravity(old, bonus) ==
    LET clamped_bonus == Clamp(bonus, -HISTORY_MAX, HISTORY_MAX)
    IN old + clamped_bonus - TruncDiv(old * Abs(clamped_bonus), HISTORY_MAX)

\* the table after HistoryTable::update(color, mv, bonus)
Updated(t, key, bonus) == [t EXCEPT ![key] = gravity(t[key], bonus)]

\* HistoryTable::update
HistoryUpdate(key, bonus) ==
    /\ table' = Updated(table, key, bonus)
    /\ lastHistory' = [op |-> "update", bonus |-> bonus]
    /\ HistoryFrame

\* the penalty loop of update_on_cutoff over other_quiets
RECURSIVE Penalised(_, _, _, _)
Penalised(t, best, bonus, quiets) ==
    IF quiets = <<>> THEN t
    ELSE Penalised(IF Head(quiets) # best THEN Updated(t, Head(quiets), -bonus) ELSE t,
                   best, bonus, Tail(quiets))

\* HistoryTable::update_on_cutoff; depth * depth wraps in a release build (a
\* debug build panics on the overflow and the table is left as it was)
UpdateOnCutoff(best, depth, quiets) ==
    LET bonus == WrappingMulI32(Abs(depth), Abs(depth))
    IN /\ table' = Penalised(Updated(table, best, bonus), best, bonus, quiets)
       /\ lastHistory' = [op |-> "update_on_cutoff", bonus |-> bonus]
       /\ HistoryFrame

\* HistoryTable::age
HistoryAge ==
    /\ table' = [k \in DOMAIN table |-> TruncDiv(table[k], 2)]
    /\ lastHistory' = [op |-> "age"]
    /\ HistoryFrame

\* HistoryTable::clear
HistoryClear ==
    /\ table' = [k \in DOMAIN table |-> 0]
    /\ lastHistory' = [op |-> "clear"]
    /\ HistoryFrame

\* C9: after any sequence of update (any i32 bonus), update_on_cutoff (any
\* depth) and age calls, every entry of the history table satisfies
\* |score| <= 16384.
C9_HistoryBounded ==
    \A k \in DOMAIN table : table[k] >= -HISTORY_MAX /\ table[k] <= HISTORY_MAX

\* C9 witness: an update with the largest i32 bonus has brought an entry to
\* 16384 while the other, penalised, is at -16384.
C9_Witness ==
    /\ lastHistory.op = "update"
    /\ lastHistory.bonus = MaxI32
    /\ \E k \in DOMAIN table : table[k] = HISTORY_MAX
    /\ \E k \in DOMAIN table : table[k] = -HISTORY_MAX

(***************************************************************************)
(* Time manager: src/src/search/limits.rs                                  *)
(***************************************************************************)
\* Option<u64>: None and Some(x)
None == <<>>

Some(x) == <<x>>

Unwrap(o) == o[1]

\* the options over a set of values
Options(S) == {None} \cup {Some(x) : x \in S}

\* a u64 is held as its 16-bit limbs, least significant first; a fifth limb
\* takes what a product or a sum carries out of the 64 bits
LimbBase == 65536

NumLimbs == 5

\* the number n, 0 <= n < 2^31, as limbs
U64Of(n) == <<n % LimbBase, (n \div LimbBase) % LimbBase, 0, 0, 0>>

\* u64::MAX
U64_MAX == <<LimbBase - 1, LimbBase - 1, LimbBase - 1, LimbBase - 1, 0>>

\* the low 64 bits of x: what a wrapping u64 operation keeps
AsU64(x) == [x EXCEPT ![NumLimbs] = 0]

\* x does not fit 64 bits
OverflowsU64(x) == x[NumLimbs] # 0

RECURSIVE MulFrom(_, _, _, _)
MulFrom(x, k, i, carry) ==
    IF i > NumLimbs THEN <<>>
    ELSE LET p == x[i] * k + carry
         IN <<p % LimbBase>> \o MulFrom(x, k, i + 1, p \div LimbBase)

\* x * k for a u64 x and 0 <= k < 2^15, not wrapped
NatMul(x, k) == MulFrom(x, k, 1, 0)

RECURSIVE DivFrom(_, _, _, _)
DivFrom(x, k, i, rem) ==
    IF i = 0 THEN <<>>
    ELSE LET cur == rem * LimbBase + x[i]
         IN DivFrom(x, k, i - 1, cur % k) \o <<cur \div k>>

\* x / k for 0 < k < 2^15
NatDiv(x, k) == DivFrom(x, k, NumLimbs, 0)

RECURSIVE LessFrom(_, _, _)
LessFrom(x, y, i) ==
    IF i = 0 THEN FALSE
    ELSE IF x[i] # y[i] THEN x[i] < y[i]
    ELSE LessFrom(x, y, i - 1)

\* x < y
NatLess(x, y) == LessFrom(x, y, NumLimbs)

RECURSIVE AddFrom(_, _, _, _)
AddFrom(x, y, i, carry) ==
    IF i > NumLimbs THEN <<>>
    ELSE LET s == x[i] + y[i] + carry
         IN <<s % LimbBase>> \o AddFrom(x, y, i + 1, s \div LimbBase)

\* x + y for u64 x and y, not wrapped
NatAdd(x, y) == AddFrom(x, y, 1, 0)

RECURSIVE SubFrom(_, _, _, _)
SubFrom(x, y, i, borrow) ==
    IF i > NumLimbs THEN <<>>
    ELSE LET d == x[i] - y[i] - borrow
         IN <<(d + LimbBase) % LimbBase>> \o SubFrom(x, y, i + 1, IF d < 0 THEN 1 ELSE 0)

\* u64::saturating_sub
saturating_sub(a, b) == IF NatLess(a, b) THEN U64Of(0) ELSE SubFrom(a, b, 1, 0)

\* Ord::max and Ord::min of u64
NatMax(a, b) == IF NatLess(a, b) THEN b ELSE a

NatMin(a, b) == IF NatLess(b, a) THEN b ELSE a

\* SearchLimits::DEFAULT_MOVE_OVERHEAD
DEFAULT_MOVE_OVERHEAD == 50

Max(a, b) == IF a >= b THEN a ELSE b

Min(a, b) == IF a <= b THEN a ELSE b

\* TimeManager::new
TimeManagerNew ==
    [soft_limit |-> U64_MAX, hard_limit |-> U64_MAX, move_overhead |-> U64Of(10),
     infinite |-> TRUE]

\* `available` of from_limits
Available(limits, time) == saturating_sub(time, limits.move_overhead)

\* `mtg` of from_limits; movestogo is below 2^15 in every limits modelled
MovesToGoEstimate(limits, available) ==
    Max(IF limits.movestogo # None THEN Unwrap(limits.movestogo)
        ELSE IF NatLess(U64Of(300000), available) THEN 40
        ELSE IF NatLess(U64Of(120000), available) THEN 30
        ELSE IF NatLess(U64Of(60000), available) THEN 25
        ELSE IF NatLess(U64Of(30000), available) THEN 20
        ELSE IF NatLess(U64Of(10000), available) THEN 15
        ELSE 10, 1)

ClockLimitsHardFromFlooredSoft(limits, time, increment) ==
    LET inc == IF increment = None THEN U64Of(0) ELSE Unwrap(increment)
        available == Available(limits, time)
        mtg == MovesToGoEstimate(limits, available)
        base_time == NatDiv(available, mtg)
        inc_bonus == NatDiv(AsU64(NatMul(inc, 85)), 100)
        soft == NatMax(NatMin(AsU64(NatAdd(base_time, inc_bonus)), NatDiv(available, 3)),
                       U64Of(100))
        hard == NatMax(NatMin(AsU64(NatMul(soft, 3)), NatDiv(available, 2)), soft)
    IN [soft_limit |-> soft, hard_limit |-> NatMax(hard, U64Of(200)),
        move_overhead |-> limits.move_overhead, infinite |-> FALSE]

\* the wtime/btime branch of from_limits, u64 arithmetic wrapping
ClockLimits(limits, time, increment) ==
    LET inc == IF increment = None THEN U64Of(0) ELSE Unwrap(increment)
        available == Available(limits, time)
        mtg == MovesToGoEstimate(limits, available)
        base_time == NatDiv(available, mtg)
        inc_bonus == NatDiv(AsU64(NatMul(inc, 85)), 100)
        soft == NatMin(AsU64(NatAdd(base_time, inc_bonus)), NatDiv(available, 3))
        hard == NatMax(NatMin(AsU64(NatMul(soft, 3)), NatDiv(available, 2)), soft)
    IN [soft_limit |-> NatMax(soft, U64Of(100)), hard_limit |-> NatMax(hard, U64Of(200)),
        move_overhead |-> limits.move_overhead, infinite |-> FALSE]

\* an operation of the wtime/btime branch leaves the 64 bits
ClockOverflows(limits, time, increment) ==
    LET inc == IF increment = None THEN U64Of(0) ELSE Unwrap(increment)
        available == Available(limits, time)
        base_time == NatDiv(available, MovesToGoEstimate(limits, available))
        inc_bonus == NatDiv(AsU64(NatMul(inc, 85)), 100)
        soft == NatMin(AsU64(NatAdd(base_time, inc_bonus)), NatDiv(available, 3))
    IN \/ OverflowsU64(NatMul(inc, 85))
       \/ OverflowsU64(NatAdd(base_time, inc_bonus))
       \/ OverflowsU64(NatMul(soft, 3))

\* the movetime branch of from_limits, u64 arithmetic wrapping
MovetimeLimits(limits) ==
    LET available == Available(limits, Unwrap(limits.movetime))
        soft == NatDiv(AsU64(NatMul(available, 92)), 100)
        hard == NatDiv(AsU64(NatMul(available, 98)), 100)
    IN [soft_limit |-> NatMax(soft, U64Of(1)), hard_limit |-> NatMax(hard, U64Of(1)),
        move_overhead |-> limits.move_overhead, infinite |-> FALSE]

\* a product of the movetime branch leaves the 64 bits
MovetimeOverflows(limits) ==
    LET available == Available(limits, Unwrap(limits.movetime))
    IN \/ OverflowsU64(NatMul(available, 92))
       \/ OverflowsU64(NatMul(available, 98))

\* the side's clock: (wtime, winc) or (btime, binc)
TimeLeft(limits, side) == IF side = "White" THEN limits.wtime ELSE limits.btime

Increment(limits, side) == IF side = "White" THEN limits.winc ELSE limits.binc

from_limits_movetime_first(limits, side) ==
    IF limits.movetime # None THEN MovetimeLimits(limits)
    ELSE IF limits.infinite THEN TimeManagerNew
    ELSE IF TimeLeft(limits, side) # None
    THEN ClockLimits(limits, Unwrap(TimeLeft(limits, side)), Increment(limits, side))
    ELSE [soft_limit |-> U64_MAX, hard_limit |-> U64_MAX,
          move_overhead |-> limits.move_overhead, infinite |-> TRUE]

\* from_limits that falls back on the clock of the other side
from_limits_any_clock(limits, side) ==
    IF limits.infinite THEN TimeManagerNew
    ELSE IF limits.movetime # None THEN MovetimeLimits(limits)
    ELSE IF TimeLeft(limits, side) # None
    THEN ClockLimits(limits, Unwrap(TimeLeft(limits, side)), Increment(limits, side))
    ELSE IF limits.wtime # None
    THEN ClockLimits(limits, Unwrap(limits.wtime), limits.winc)
    ELSE IF limits.btime # None
    THEN ClockLimits(limits, Unwrap(limits.btime), limits.binc)
    ELSE [soft_limit |-> U64_MAX, hard_limit |-> U64_MAX,
          move_overhead |-> limits.move_overhead, infinite |-> TRUE]

\* TimeManager::from_limits as a release build runs it
from_limits(limits, side) ==
    IF limits.infinite THEN TimeManagerNew
    ELSE IF limits.movetime # None THEN MovetimeLimits(limits)
    ELSE IF TimeLeft(limits, side) # None
    THEN ClockLimits(limits, Unwrap(TimeLeft(limits, side)), Increment(limits, side))
    ELSE [soft_limit |-> U64_MAX, hard_limit |-> U64_MAX,
          move_overhead |-> limits.move_overhead, infinite |-> TRUE]

\* from_limits runs into an arithmetic overflow: a build with overflow checks
\* panics there
from_limits_overflows(limits, side) ==
    IF limits.infinite THEN FALSE
    ELSE IF limits.movetime # None THEN MovetimeOverflows(limits)
    ELSE IF TimeLeft(limits, side) # None
    THEN ClockOverflows(limits, Unwrap(TimeLeft(limits, side)), Increment(limits, side))
    ELSE FALSE

\* 2^63 ms
HalfRange == <<0, 0, 0, LimbBase \div 2, 0>>

\* 188232082384791344 ms, the least time whose product with 98 passes 2^64
WrapAt98 == <<42800, 58848, 48148, 668, 0>>

\* the SearchLimits the `go` command hands over
Movetimes ==
    Options({U64Of(n) : n \in {0, 1, 49, 50, 51, 52, 100, 1000, 60000}}
            \cup {HalfRange, WrapAt98, U64_MAX})

Overheads == {U64Of(0), U64Of(10), U64Of(DEFAULT_MOVE_OVERHEAD)}

WTimes == Options({U64Of(n) : n \in {0, 150, 1000, 5000, 60000, 400000}})

BTimes == Options({U64Of(7000)})

WIncs == Options({U64Of(0), U64Of(1000), HalfRange})

BIncs == Options({U64Of(500)})

MovesToGo == Options({0, 1, 40})

AllLimits ==
    [movetime : Movetimes, wtime : WTimes, btime : BTimes, winc : WIncs,
     binc : BIncs, movestogo : MovesToGo, infinite : BOOLEAN,
     move_overhead : Overheads]

Sides == {"White", "Black"}

\* TimeManager::default, no search asked for
TimeInit ==
    /\ tm = TimeManagerNew
    /\ lastLimits = [op |-> "new"]

\* TimeManager::default, and a `go` command with its limits for the side to move
TimeInputs ==
    /\ tm = TimeManagerNew
    /\ \E limits \in AllLimits, side \in Sides :
          lastLimits = [op |-> "go", limits |-> limits, side |-> side]

\* the search driver builds its TimeManager from the limits of `go`; where the
\* arithmetic overflows, a release build goes on with the wrapped value and a
\* build with overflow checks panics
FromLimits ==
    /\ lastLimits.op = "go"
    /\ \/ /\ tm' = from_limits(lastLimits.limits, lastLimits.side)
          /\ lastLimits' = [lastLimits EXCEPT !.op = "from_limits"]
       \/ /\ from_limits_overflows(lastLimits.limits, lastLimits.side)
          /\ tm' = tm
          /\ lastLimits' = [lastLimits EXCEPT !.op = "panic"]
    /\ TimeFrame

\* TimeManager::should_stop at `elapsed` ms
should_stop(t, elapsed) == IF t.infinite THEN FALSE ELSE ~NatLess(elapsed, t.hard_limit)

\* TimeManager::can_start_iteration at `elapsed` ms
can_start_iteration(t, elapsed) == IF t.infinite THEN TRUE ELSE NatLess(elapsed, t.soft_limit)

\* TimeManager::soft_limit_exceeded at `elapsed` ms
soft_limit_exceeded(t, elapsed) == IF t.infinite THEN FALSE ELSE ~NatLess(elapsed, t.soft_limit)

\* TimeManager::hard_limit_exceeded at `elapsed` ms
hard_limit_exceeded(t, elapsed) == IF t.infinite THEN FALSE ELSE ~NatLess(elapsed, t.hard_limit)

\* what TimeManager::elapsed returns when the search polls the clock
ElapsedTimes == {U64Of(0), U64Of(150), U64Of(1000), U64_MAX}

\* the search polls the time manager at some elapsed time
Poll(elapsed) ==
    /\ lastLimits.op = "from_limits"
    /\ lastLimits' = [op |-> "poll", limits |-> lastLimits.limits, side |-> lastLimits.side,
                      elapsed |-> elapsed,
                      should_stop |-> should_stop(tm, elapsed),
                      can_start_iteration |-> can_start_iteration(tm, elapsed),
                      soft_limit_exceeded |-> soft_limit_exceeded(tm, elapsed),
                      hard_limit_exceeded |-> hard_limit_exceeded(tm, elapsed)]
    /\ UNCHANGED tm
    /\ TimeFrame

\* C10: with movetime M, infinite = false and overhead O, from_limits yields
\* avail = max(M - O, 0), soft = max(1, floor(92 * avail / 100)) and
\* hard = max(1, floor(98 * avail / 100)), whatever the clock fields hold;
\* movetime 1000 with overhead 50 gives soft 874 and hard 931.
C10_FixedMovetimeBudget ==
    ( /\ lastLimits.op \in {"from_limits", "panic"}
      /\ lastLimits.limits.movetime # None
      /\ ~lastLimits.limits.infinite ) =>
        LET M == Unwrap(lastLimits.limits.movetime)
            O == lastLimits.limits.move_overhead
            avail == IF NatLess(O, M) THEN SubFrom(M, O, 1, 0) ELSE U64Of(0)
        IN /\ lastLimits.op = "from_limits"
           /\ ~tm.infinite
           /\ tm.soft_limit = NatMax(U64Of(1), NatDiv(NatMul(avail, 92), 100))
           /\ tm.hard_limit = NatMax(U64Of(1), NatDiv(NatMul(avail, 98), 100))
           /\ (M = U64Of(1000) /\ O = U64Of(50))
                 => (tm.soft_limit = U64Of(874) /\ tm.hard_limit = U64Of(931))

\* the fixed movetime budget where no product leaves the 64 bits
C10_BudgetWithoutOverflow ==
    ( /\ lastLimits.op = "from_limits"
      /\ lastLimits.limits.movetime # None
      /\ ~lastLimits.limits.infinite
      /\ ~MovetimeOverflows(lastLimits.limits) ) =>
        LET M == Unwrap(lastLimits.limits.movetime)
            O == lastLimits.limits.move_overhead
            avail == IF NatLess(O, M) THEN SubFrom(M, O, 1, 0) ELSE U64Of(0)
        IN /\ ~tm.infinite
           /\ tm.soft_limit = NatMax(U64Of(1), NatDiv(NatMul(avail, 92), 100))
           /\ tm.hard_limit = NatMax(U64Of(1), NatDiv(NatMul(avail, 98), 100))

\* C11: for every SearchLimits value and side to move, the TimeManager built
\* by from_limits has hard_limit >= soft_limit.
C11_HardAtLeastSoft ==
    lastLimits.op \in {"from_limits", "poll"} => ~NatLess(tm.hard_limit, tm.soft_limit)

\* the limits take the wtime/btime branch and its arithmetic stays in 64 bits
ClockCase ==
    /\ lastLimits.op = "from_limits"
    /\ ~lastLimits.limits.infinite
    /\ lastLimits.limits.movetime = None
    /\ TimeLeft(lastLimits.limits, lastLimits.side) # None
    /\ ~ClockOverflows(lastLimits.limits,
                       Unwrap(TimeLeft(lastLimits.limits, lastLimits.side)),
                       Increment(lastLimits.limits, lastLimits.side))

\* avail = max(T - overhead, 0) of the side to move
BudgetAvail ==
    LET T == Unwrap(TimeLeft(lastLimits.limits, lastLimits.side))
        O == lastLimits.limits.move_overhead
    IN IF NatLess(O, T) THEN SubFrom(T, O, 1, 0) ELSE U64Of(0)

\* the tiers 40/30/25/20/15/10 by avail
BudgetTier ==
    IF NatLess(U64Of(300000), BudgetAvail) THEN 40
    ELSE IF NatLess(U64Of(120000), BudgetAvail) THEN 30
    ELSE IF NatLess(U64Of(60000), BudgetAvail) THEN 25
    ELSE IF NatLess(U64Of(30000), BudgetAvail) THEN 20
    ELSE IF NatLess(U64Of(10000), BudgetAvail) THEN 15
    ELSE 10

\* min(avail / mtg + 85 * inc / 100, avail / 3), before the floor of 100 ms
BudgetSoft(mtg) ==
    LET i == Increment(lastLimits.limits, lastLimits.side)
        inc == IF i = None THEN U64Of(0) ELSE Unwrap(i)
    IN NatMin(NatAdd(NatDiv(BudgetAvail, mtg), NatDiv(NatMul(inc, 85), 100)),
              NatDiv(BudgetAvail, 3))

\* max(200, soft, min(3 * soft, avail / 2))
BudgetHard(soft) ==
    NatMax(U64Of(200), NatMax(soft, NatMin(NatMul(soft, 3), NatDiv(BudgetAvail, 2))))

C13_InfiniteNeverStops ==
    (lastLimits.op = "poll" /\ lastLimits.limits.infinite) =>
        /\ ~lastLimits.should_stop
        /\ ~lastLimits.hard_limit_exceeded
        /\ lastLimits.can_start_iteration

\* C13 witness: an infinite search with a movetime and a clock set, polled at
\* the largest elapsed time.
C13_Witness ==
    /\ lastLimits.op = "poll"
    /\ lastLimits.limits.infinite
    /\ lastLimits.limits.movetime = Some(U64Of(1000))
    /\ lastLimits.limits.wtime = Some(U64Of(5000))
    /\ lastLimits.elapsed = U64_MAX
    /\ ~lastLimits.should_stop
    /\ lastLimits.can_start_iteration

\* the limits take the wtime/btime branch of from_limits
ClockBranch ==
    /\ lastLimits.op \in {"from_limits", "poll"}
    /\ ~lastLimits.limits.infinite
    /\ lastLimits.limits.movetime = None
    /\ TimeLeft(lastLimits.limits, lastLimits.side) # None

\* C24: under a clock time control (time for the side to move, no movetime,
\* not infinite) the hard limit never exceeds half of the available time:
\* hard_limit <= (time_left - overhead) / 2 for every time_left, increment and
\* movestogo.
C24_HardWithinHalfAvailable ==
    ClockBranch => ~NatLess(NatDiv(BudgetAvail, 2), tm.hard_limit)

\* C25: for every TimeManager built by from_limits and every elapsed time,
\* hard_limit_exceeded() implies not can_start_iteration().
C25_HardExceededBlocksIteration ==
    lastLimits.op = "poll" =>
        (lastLimits.hard_limit_exceeded => ~lastLimits.can_start_iteration)

\* the limits are not infinite, have no movetime and no clock time for the
\* side to move
NoTimeControl ==
    /\ ~lastLimits.limits.infinite
    /\ lastLimits.limits.movetime = None
    /\ TimeLeft(lastLimits.limits, lastLimits.side) = None

\* C29: when the limits are not infinite, have no movetime and give no clock
\* time for the side to move, from_limits returns a TimeManager that behaves
\* as infinite: should_stop() and hard_limit_exceeded() are never true and
\* can_start_iteration() is always true.
C29_NoClockIsInfinite ==
    /\ (lastLimits.op = "from_limits" /\ NoTimeControl) => tm.infinite
    /\ (lastLimits.op = "poll" /\ NoTimeControl) =>
          /\ ~lastLimits.should_stop
          /\ ~lastLimits.hard_limit_exceeded
          /\ lastLimits.can_start_iteration

\* White to move with only Black's clock and increment given, polled at the
\* largest elapsed time: the search goes on
C29_Witness ==
    /\ lastLimits.op = "poll"
    /\ NoTimeControl
    /\ lastLimits.side = "White"
    /\ lastLimits.limits.btime = Some(U64Of(7000))
    /\ lastLimits.elapsed = U64_MAX
    /\ ~lastLimits.should_stop
    /\ lastLimits.can_start_iteration

(***************************************************************************)
(* Static exchange evaluation: src/src/search/see.rs                       *)
(***************************************************************************)
\* Piece, in the order of Piece::index()
PieceOrder == <<"Pawn", "Knight", "Bishop", "Rook", "Queen", "King">>

Pieces == {PieceOrder[i] : i \in 1..6}

\* Piece::index()
PieceIndex(p) == CHOOSE i \in 0..5 : PieceOrder[i + 1] = p

SEE_VALUES == <<100, 300, 300, 500, 900, 20000>>

see_piece_value(piece) == SEE_VALUES[PieceIndex(piece) + 1]

\* !side, with "us" the side to move of the board
OtherSide(side) == IF side = "us" THEN "them" ELSE "us"

\* The board as see_captured reads it around the target square `to`: the
\* piece on `from`, the victim, the promotion of the move, and the other
\* pieces that bear on `to`, each with its square, its side, its type and the
\* square of the piece it stands behind on its line to `to` (0: none); a piece
\* behind another attacks `to` once the one in front has left `occupied`.
Attacker(sq, side, piece, blocker) ==
    [sq |-> sq, side |-> side, piece |-> piece, blocker |-> blocker]

\* get_piece_attacks: the pieces of `side` and type `piece` that attack the
\* target under `occupied`
get_piece_attacks(pos, piece, side, occupied) ==
    { a \in pos.pieces :
        /\ a.piece = piece
        /\ a.side = side
        /\ a.sq \in occupied
        /\ (a.blocker = 0 \/ a.blocker \notin occupied) }

\* get_lva from the piece of index i on: the least valuable attacker, the one
\* on the lowest square among those of its type
RECURSIVE LvaFrom(_, _, _, _)
LvaFrom(pos, side, occupied, i) ==
    IF i > 5 THEN None
    ELSE LET attackers == get_piece_attacks(pos, PieceOrder[i + 1], side, occupied)
         IN IF attackers # {}
            THEN Some(CHOOSE a \in attackers : \A b \in attackers : a.sq <= b.sq)
            ELSE LvaFrom(pos, side, occupied, i + 1)

get_lva(pos, side, occupied) == LvaFrom(pos, side, occupied, 0)

\* the exchange loop with one more entry pushed when no attacker remains
RECURSIVE SimulateExchangeClosing(_, _, _, _, _)
SimulateExchangeClosing(pos, side, occupied, last_value, gains) ==
    LET lva == get_lva(pos, side, occupied)
    IN IF lva = None THEN Append(gains, last_value)
       ELSE LET a == Unwrap(lva)
                pushed == Append(gains, last_value)
            IN IF a.piece = "King" THEN pushed
               ELSE SimulateExchangeClosing(pos, OtherSide(side), occupied \ {a.sq},
                                            see_piece_value(a.piece), pushed)

\* the exchange loop of see_captured: the gains stack it leaves
RECURSIVE SimulateExchange(_, _, _, _, _)
SimulateExchange(pos, side, occupied, last_value, gains) ==
    LET lva == get_lva(pos, side, occupied)
    IN IF lva = None THEN gains
       ELSE LET a == Unwrap(lva)
                pushed == Append(gains, last_value)
            IN IF a.piece = "King" THEN pushed
               ELSE SimulateExchange(pos, OtherSide(side), occupied \ {a.sq},
                                     see_piece_value(a.piece), pushed)

\* FoldGains without the choice to stand pat: every recapture is forced
RECURSIVE FoldGainsForced(_)
FoldGainsForced(gains) ==
    LET n == Len(gains)
    IN IF n = 1 THEN gains[1]
       ELSE FoldGainsForced(SubSeq(gains, 1, n - 2) \o <<-gains[n]>>)

\* the backward pass of see_captured over the gains stack
RECURSIVE FoldGains(_)
FoldGains(gains) ==
    LET n == Len(gains)
    IN IF n = 1 THEN gains[1]
       ELSE FoldGains(SubSeq(gains, 1, n - 2) \o <<Max(gains[n - 1], -gains[n])>>)

\* see_captured(board, mv, victim) with victim the piece on the target square
see_captured(pos) ==
    LET promo_gain == IF pos.promo # None
                      THEN see_piece_value(Unwrap(pos.promo)) - see_piece_value("Pawn")
                      ELSE 0
        occupied == {a.sq : a \in pos.pieces}
        exchange(gain) ==
            FoldGains(SimulateExchange(pos, "them", occupied,
                                       see_piece_value(pos.attacker), <<gain + promo_gain>>))
    IN IF pos.victim # None THEN exchange(see_piece_value(Unwrap(pos.victim)))
       ELSE IF pos.attacker = "Pawn" THEN exchange(see_piece_value("Pawn"))
       ELSE 0

\* the gains stack of see_captured when its loop ends, gains[0] first; its
\* length is `depth`, and depth - 1 the last index written. Empty when
\* see_captured returns before the stack is made.
see_gains(pos) ==
    IF pos.victim # None \/ pos.attacker = "Pawn"
    THEN SimulateExchange(pos, "them", {a.sq : a \in pos.pieces},
                          see_piece_value(pos.attacker), <<0>>)
    ELSE <<>>

\* is_good_capture_with_victim
is_good_capture_with_victim(pos) == see_captured(pos) >= 0

\* the SEE pruning test of quiescence: the capture is skipped
see_pruned(pos, in_check) == ~in_check /\ ~is_good_capture_with_victim(pos)

\* the pieces that stand next to the moving one on either side
OtherPieces == {"Pawn", "Knight", "Rook", "Queen", "King"}

Sliders == {"Bishop", "Rook", "Queen"}

\* the ways up to two more pieces of `side`, on squares sq1 < sq2, bear on the
\* target: least valuable first, one king at most, a slider possibly behind
\* the other piece
SidePieces(side, sq1, sq2) ==
    {{}}
    \cup { {Attacker(sq1, side, p, 0)} : p \in OtherPieces }
    \cup UNION { UNION { { {Attacker(sq1, side, p, b[1]), Attacker(sq2, side, q, b[2])} :
                             b \in {<<0, 0>>}
                                   \cup (IF q \in Sliders /\ p # "Knight"
                                         THEN {<<0, sq1>>} ELSE {})
                                   \cup (IF p \in Sliders /\ q # "Knight"
                                         THEN {<<sq2, 0>>} ELSE {}) } :
                         q \in { x \in OtherPieces :
                                   /\ PieceIndex(p) <= PieceIndex(x)
                                   /\ ~(p = "King" /\ x = "King") } } :
                 p \in OtherPieces }

\* the captures see_captured is called with
SeePositions ==
    { pos \in [ attacker : Pieces,
                victim : Options(Pieces \ {"King"}),
                promo : Options({"Knight", "Queen"}),
                pieces : { o \cup t : o \in SidePieces("us", 1, 2),
                                      t \in SidePieces("them", 3, 4) } ] :
        /\ pos.promo # None => pos.attacker = "Pawn"
        /\ pos.attacker = "King" =>
              \A a \in pos.pieces : ~(a.side = "us" /\ a.piece = "King") }

\* the gains stack of see_captured: `[i32; 32]`
GAINS_LEN == 32

\* the pieces a board holds
MaxBoardPieces == 32

\* the longest line of pieces behind one another towards the target
RayLen == 7

\* a full board: a queen takes a pawn on a square that 14 queens of each side
\* bear on, seven behind one another on each of four lines and the sides
\* alternating from the first line to the last; the queen that takes, the
\* pawn and the two kings, which stand away from the square, make 32 pieces
CrowdedBoard ==
    [ attacker |-> "Queen", victim |-> Some("Pawn"), promo |-> None,
      pieces |-> { Attacker(i, IF i % 2 = 1 THEN "them" ELSE "us", "Queen",
                            IF (i - 1) % RayLen = 0 THEN 0 ELSE i - 1) :
                     i \in 1..(4 * RayLen) } ]

\* no capture looked at
SeeInit == lastSee = [op |-> "none"]

\* quiescence has a capture at hand
SeeInputs == \E pos \in SeePositions \cup {CrowdedBoard} : lastSee = [op |-> "capture", pos |-> pos]

\* quiescence evaluates the capture and decides on it
SeeCapture(in_check) ==
    /\ lastSee.op = "capture"
    /\ lastSee' = [op |-> "see", pos |-> lastSee.pos, in_check |-> in_check,
                   see |-> see_captured(lastSee.pos),
                   depth |-> Len(see_gains(lastSee.pos)),
                   good |-> is_good_capture_with_victim(lastSee.pos),
                   pruned |-> see_pruned(lastSee.pos, in_check)]
    /\ SeeFrame

\* the pieces of `side` that bear on the target, the moving one not counted
Bearing(pos, side) == {a \in pos.pieces : a.side = side}

\* C14: when a piece of value A captures a piece of value V < A on a square
\* defended by exactly one enemy piece and attacked by no other piece of the
\* capturing side, see returns V - A (negative), is_good_capture is false and
\* quiescence skips the capture when not in check.
C14_SeeLosingCapture ==
    ( /\ lastSee.op = "see"
      /\ lastSee.pos.victim # None
      /\ lastSee.pos.promo = None
      /\ see_piece_value(Unwrap(lastSee.pos.victim)) < see_piece_value(lastSee.pos.attacker)
      /\ Cardinality(Bearing(lastSee.pos, "them")) = 1
      /\ Bearing(lastSee.pos, "us") = {} )
    => /\ lastSee.see = see_piece_value(Unwrap(lastSee.pos.victim))
                          - see_piece_value(lastSee.pos.attacker)
       /\ ~lastSee.good
       /\ ~lastSee.in_check => lastSee.pruned

\* every piece of the exchange has the value of the capturing one
EqualValues(pos) ==
    /\ pos.victim # None
    /\ pos.promo = None
    /\ see_piece_value(Unwrap(pos.victim)) = see_piece_value(pos.attacker)
    /\ \A a \in pos.pieces : see_piece_value(a.piece) = see_piece_value(pos.attacker)

PiecesOnBoard(pos) == 2 + Cardinality(pos.pieces)

\* C26: the gains stack never overflows: for every board with at most 32
\* pieces and every move, the index used to write gains[depth] in
\* see_captured stays below 32; every turn of the loop takes one more piece
\* out of the occupancy, so the last index written is at most the number of
\* pieces that bear on the target.
C26_GainsIndexInBounds ==
    (lastSee.op = "see" /\ lastSee.depth > 0) =>
        /\ lastSee.depth - 1 <= Cardinality(lastSee.pos.pieces)
        /\ PiecesOnBoard(lastSee.pos) <= MaxBoardPieces => lastSee.depth - 1 < GAINS_LEN

\* C26 witness: on the full board every one of the 28 queens takes in turn
\* and the last write is gains[28]
C26_Witness ==
    /\ lastSee.op = "see"
    /\ lastSee.pos = CrowdedBoard
    /\ PiecesOnBoard(lastSee.pos) <= MaxBoardPieces
    /\ lastSee.depth - 1 = 4 * RayLen

(***************************************************************************)
(* Move ordering: src/src/search/ordering.rs                               *)
(***************************************************************************)
TT_MOVE_BONUS == 1000000

PROMOTION_BONUS == 100000

CAPTURE_BONUS == 50000

KILLER_0_BONUS == 40000

KILLER_1_BONUS == 35000

\* crate::types::piece_value, in centipawns by Piece::index(); the values are
\* those of the PIECE_VALUES table of qsearch.rs
piece_value(piece) == <<100, 320, 330, 500, 900, 0>>[PieceIndex(piece) + 1]

\* board.piece_on(sq) of the board the moves are ordered on: white pawns on e2
\* and b7, a white knight on g1, a white queen on d1, a black pawn on d5 and a
\* black queen on a8
OrderBoard ==
    [sq \in 0..63 |->
        IF sq \in {12, 49} THEN Some("Pawn")
        ELSE IF sq = 6 THEN Some("Knight")
        ELSE IF sq = 3 THEN Some("Queen")
        ELSE IF sq = 35 THEN Some("Pawn")
        ELSE IF sq = 56 THEN Some("Queen")
        ELSE None]

\* m.get_promotion()
get_promotion(m) == IF m.promo = "NoPromo" THEN None ELSE Some(m.promo)

\* g1f3 and e2e4 (quiet), d1xd5 (queen takes pawn), b7b8=Q (quiet promotion),
\* b7xa8=Q and b7xa8=N (pawn takes queen and promotes)
OrderMoves ==
    { MkMove(6, 21, "NoPromo"), MkMove(12, 28, "NoPromo"), MkMove(3, 35, "NoPromo"),
      MkMove(49, 57, "Queen"), MkMove(49, 56, "Queen"), MkMove(49, 56, "Knight") }

mvv_lva_score(board, m) ==
    LET victim == board[m.to]
        attacker == board[m.from]
    IN IF victim # None /\ attacker # None
       THEN piece_value(Unwrap(victim)) * 10 - piece_value(Unwrap(attacker))
       ELSE 0

\* score_move without its early return for the TT move
score_move_without_tt(board, m, tt_move, killer_moves) ==
    LET promotion == IF get_promotion(m) # None
                     THEN piece_value(Unwrap(get_promotion(m))) + PROMOTION_BONUS
                     ELSE 0
        rest == IF board[m.to] # None THEN mvv_lva_score(board, m) + CAPTURE_BONUS
                ELSE IF killer_moves[1] = Some(m) THEN KILLER_0_BONUS
                ELSE IF killer_moves[2] = Some(m) THEN KILLER_1_BONUS
                ELSE 0
    IN promotion + rest

score_move(board, m, tt_move, killer_moves) ==
    IF tt_move = Some(m) THEN TT_MOVE_BONUS
    ELSE score_move_without_tt(board, m, tt_move, killer_moves)

\* scored.sort_by(|a, b| b.1.cmp(&a.1)): a stable sort by descending score,
\* as the insertion of each pair behind the pairs that do not score less
RECURSIVE SortByScore(_)
SortByScore(scored) ==
    IF scored = <<>> THEN <<>>
    ELSE LET n == Len(scored)
             last == scored[n]
             front == SortByScore(SubSeq(scored, 1, n - 1))
             keep == Cardinality({i \in 1..(n - 1) : front[i][2] >= last[2]})
         IN SubSeq(front, 1, keep) \o <<last>> \o SubSeq(front, keep + 1, n - 1)

\* order_moves_with_tt_and_killers: the move list it leaves in `moves`
order_moves_with_tt_and_killers(board, moves, tt_move, killer_moves) ==
    LET scored == [i \in 1..Len(moves) |->
                      <<moves[i], score_move(board, moves[i], tt_move, killer_moves)>>]
        sorted == SortByScore(scored)
    IN [i \in 1..Len(moves) |-> sorted[i][1]]

MaxMoves == 4

\* the move lists of a node: distinct moves
MoveLists ==
    { l \in UNION { [1..n -> OrderMoves] : n \in 0..MaxMoves } :
        \A i, j \in 1..Len(l) : i # j => l[i] # l[j] }

\* the killer slots of the ply
OrderKillers ==
    { <<None, None>>,
      <<Some(MkMove(12, 28, "NoPromo")), None>>,
      <<Some(MkMove(6, 21, "NoPromo")), Some(MkMove(12, 28, "NoPromo"))>> }

\* HistoryTable::get of the two quiet moves
OrderHistories == [ {MkMove(6, 21, "NoPromo"), MkMove(12, 28, "NoPromo")} -> {0, 700} ]

\* no list ordered
OrderInit == lastOrder = [op |-> "none"]

\* a node has generated its moves
OrderInputs ==
    \E moves \in MoveLists, tt_move \in Options(OrderMoves),
       killer_moves \in OrderKillers, history \in OrderHistories :
        lastOrder = [op |-> "generated", moves |-> moves, tt_move |-> tt_move,
                     killers |-> killer_moves, history |-> history]

\* the node orders its moves
OrderMoveList ==
    /\ lastOrder.op = "generated"
    /\ lastOrder' = [op |-> "ordered", moves |-> lastOrder.moves,
                     tt_move |-> lastOrder.tt_move, killers |-> lastOrder.killers,
                     history |-> lastOrder.history,
                     ordered |-> order_moves_with_tt_and_killers(OrderBoard, lastOrder.moves,
                                     lastOrder.tt_move, lastOrder.killers)]
    /\ OrderFrame

\* the score the ordered list of lastOrder was sorted by
OrderScore(m) == score_move(OrderBoard, m, lastOrder.tt_move, lastOrder.killers)

\* not the TT move, not a promotion, not a capture and not a killer
OrdinaryQuiet(m) ==
    /\ lastOrder.tt_move # Some(m)
    /\ get_promotion(m) = None
    /\ OrderBoard[m.to] = None
    /\ lastOrder.killers[1] # Some(m)
    /\ lastOrder.killers[2] # Some(m)

\* C16: a move that is not the TT move, not a promotion, not a capture and
\* not a killer has an ordering score equal to its history-table score, so
\* such moves come out in descending history score.
C16_QuietByHistory ==
    lastOrder.op = "ordered" =>
        /\ \A i \in 1..Len(lastOrder.ordered) :
              OrdinaryQuiet(lastOrder.ordered[i]) =>
                  OrderScore(lastOrder.ordered[i]) = lastOrder.history[lastOrder.ordered[i]]
        /\ \A i, j \in 1..Len(lastOrder.ordered) :
              (i < j /\ OrdinaryQuiet(lastOrder.ordered[i]) /\ OrdinaryQuiet(lastOrder.ordered[j]))
                  => lastOrder.history[lastOrder.ordered[i]]
                        >= lastOrder.history[lastOrder.ordered[j]]

\* the ordered list holds exactly the moves of the list `moves`
IsPermutation(ordered, moves) ==
    /\ Len(ordered) = Len(moves)
    /\ \A m \in OrderMoves :
          Cardinality({i \in 1..Len(ordered) : ordered[i] = m})
              = Cardinality({i \in 1..Len(moves) : moves[i] = m})

\* the place of move m in the list `moves`
IndexOf(moves, m) == CHOOSE i \in 1..Len(moves) : moves[i] = m

\* C17: a TT move that is in the move list comes out at index 0, its score
\* 1_000_000 being strictly greater than the score of every other move, a
\* capturing queen promotion included; the output is a permutation of the
\* input, sorted by descending score, with ties kept in input order.
C17_TTMoveFirst ==
    lastOrder.op = "ordered" =>
        LET moves == lastOrder.moves
            ordered == lastOrder.ordered
        IN /\ IsPermutation(ordered, moves)
           /\ \A i, j \in 1..Len(ordered) :
                 i < j =>
                    /\ OrderScore(ordered[i]) >= OrderScore(ordered[j])
                    /\ OrderScore(ordered[i]) = OrderScore(ordered[j])
                          => IndexOf(moves, ordered[i]) < IndexOf(moves, ordered[j])
           /\ \A i \in 1..Len(moves) :
                 lastOrder.tt_move = Some(moves[i]) =>
                    /\ ordered[1] = moves[i]
                    /\ OrderScore(moves[i]) = 1000000
                    /\ \A j \in 1..Len(moves) : j # i => OrderScore(moves[j]) < 1000000

\* a list was ordered whose TT move stood last, behind the capturing queen
\* promotion and two moves of equal score
C17_Witness ==
    /\ lastOrder.op = "ordered"
    /\ Len(lastOrder.moves) = MaxMoves
    /\ lastOrder.tt_move = Some(lastOrder.moves[MaxMoves])
    /\ lastOrder.ordered[1] = lastOrder.moves[MaxMoves]
    /\ lastOrder.moves[1] = MkMove(49, 56, "Queen")
    /\ \E i, j \in 1..MaxMoves :
          i # j /\ OrderScore(lastOrder.moves[i]) = OrderScore(lastOrder.moves[j])

(***************************************************************************)
(* Boards and moves of the evaluators                                      *)
(***************************************************************************)
\* a piece of a board; squares are 0..63 with a1 = 0, b1 = 1, ... h8 = 63
Man(piece, color, sq) == [piece |-> piece, color |-> color, sq |-> sq]

\* !color
OtherColor(color) == IF color = "White" THEN "Black" ELSE "White"

\* board.piece_at(sq)
piece_at(board, sq) ==
    LET here == {p \in board.pieces : p.sq = sq}
    IN IF here = {} THEN None ELSE Some(CHOOSE p \in here : TRUE)

\* board.piece_bb(piece) & board.color_bb(color)
PiecesOf(board, piece, color) ==
    {p \in board.pieces : p.piece = piece /\ p.color = color}

\* a move with its flag
FlagMove(from, to, flag) == [from |-> from, to |-> to, flag |-> flag]

\* mv.flag().promotion_piece()
promotion_piece(flag) ==
    IF flag = "PromoKnight" THEN Some("Knight")
    ELSE IF flag = "PromoBishop" THEN Some("Bishop")
    ELSE IF flag = "PromoRook" THEN Some("Rook")
    ELSE IF flag = "PromoQueen" THEN Some("Queen")
    ELSE None

\* Square::from_file_rank(file, rank), rank counted from 0
from_file_rank(file, rank) == rank * 8 + file

\* board.make_move_new(mv): the position after the move, by the rules of chess
make_move_new(board, mv) ==
    LET mover == Unwrap(piece_at(board, mv.from))
        rank == mv.from \div 8
        ep_sq == IF mover.color = "White" THEN from_file_rank(mv.to % 8, 4)
                 ELSE from_file_rank(mv.to % 8, 3)
        rook_from == IF mv.flag = "KingCastle" THEN from_file_rank(7, rank)
                     ELSE from_file_rank(0, rank)
        rook_to == IF mv.flag = "KingCastle" THEN from_file_rank(5, rank)
                   ELSE from_file_rank(3, rank)
        castling == mv.flag \in {"KingCastle", "QueenCastle"}
        gone == {mv.from, mv.to}
                \cup (IF mv.flag = "EnPassant" THEN {ep_sq} ELSE {})
                \cup (IF castling THEN {rook_from} ELSE {})
        final_piece == IF promotion_piece(mv.flag) # None
                       THEN Unwrap(promotion_piece(mv.flag)) ELSE mover.piece
    IN [pieces |-> {p \in board.pieces : p.sq \notin gone}
                   \cup {Man(final_piece, mover.color, mv.to)}
                   \cup (IF castling THEN {Man("Rook", mover.color, rook_to)} ELSE {}),
        turn |-> OtherColor(board.turn)]

\* the boards: white Ke1 Ra1 Rh1 Nc3, pawns e2 e5 h7; black Ke8 Ra8 Qc7 Bf8
\* Ng8, pawns d5 c2; with or without a white queen on d1, a black knight on
\* d2, and the pawns b4 (white) and c4 (black); either side to move.  With
\* White to move Black has just played d7-d5, with Black to move and the pawns
\* b4 and c4 on the board White has just played b2-b4.
EvalBoard(queen, knight, pawns, turn) ==
    [pieces |->
        { Man("King", "White", 4), Man("Rook", "White", 0), Man("Rook", "White", 7),
          Man("Knight", "White", 18), Man("Pawn", "White", 12), Man("Pawn", "White", 36),
          Man("Pawn", "White", 55),
          Man("King", "Black", 60), Man("Rook", "Black", 56), Man("Queen", "Black", 50),
          Man("Bishop", "Black", 61), Man("Knight", "Black", 62), Man("Pawn", "Black", 35),
          Man("Pawn", "Black", 10) }
        \cup (IF queen THEN {Man("Queen", "White", 3)} ELSE {})
        \cup (IF knight THEN {Man("Knight", "Black", 11)} ELSE {})
        \cup (IF pawns THEN {Man("Pawn", "White", 25), Man("Pawn", "Black", 26)} ELSE {}),
     turn |-> turn]

\* legal moves of EvalBoard(queen, knight, pawns, turn)
EvalMoves(queen, knight, pawns, turn) ==
    IF turn = "White"
    THEN { FlagMove(18, 28, "Normal"),        \* Nc3-e4
           FlagMove(12, 28, "Normal"),        \* e2-e4
           FlagMove(18, 35, "Normal"),        \* Nc3xd5
           FlagMove(0, 56, "Normal"),         \* Ra1xa8
           FlagMove(36, 43, "EnPassant"),     \* e5xd6 e.p.
           FlagMove(55, 63, "PromoQueen"),    \* h7-h8=Q
           FlagMove(55, 63, "PromoKnight"),   \* h7-h8=N
           FlagMove(55, 62, "PromoQueen"),    \* h7xg8=Q
           FlagMove(55, 62, "PromoRook"),     \* h7xg8=R
           FlagMove(4, 13, "Normal") }        \* Ke1-f2
         \cup (IF knight THEN {FlagMove(4, 11, "Normal")}            \* Ke1xd2
               ELSE {FlagMove(4, 6, "KingCastle")})                  \* O-O
         \cup (IF queen THEN {FlagMove(3, 10, "Normal")} ELSE {})    \* Qd1xc2
         \cup (IF queen /\ knight THEN {FlagMove(3, 11, "Normal")} ELSE {})  \* Qd1xd2
    ELSE { FlagMove(62, 45, "Normal"),        \* Ng8-f6
           FlagMove(35, 27, "Normal"),        \* d5-d4
           FlagMove(56, 0, "Normal"),         \* Ra8xa1
           FlagMove(50, 55, "Normal"),        \* Qc7xh7
           FlagMove(10, 2, "PromoQueen"),     \* c2-c1=Q
           FlagMove(10, 2, "PromoBishop"),    \* c2-c1=B
           FlagMove(60, 52, "Normal"),        \* Ke8-e7
           FlagMove(60, 58, "QueenCastle") }  \* O-O-O
         \cup (IF pawns THEN {FlagMove(26, 17, "EnPassant")} ELSE {})     \* c4xb3 e.p.
         \cup (IF queen THEN {FlagMove(10, 3, "PromoQueen")} ELSE {})     \* c2xd1=Q
         \cup (IF knight THEN {FlagMove(11, 5, "Normal")} ELSE {})        \* Nd2-f1

\* the positions with a move to make in them
EvalPositions ==
    UNION { { <<EvalBoard(o[1], o[2], o[3], turn), mv>> :
                mv \in EvalMoves(o[1], o[2], o[3], turn) } :
            o \in BOOLEAN \X BOOLEAN \X BOOLEAN, turn \in Sides }

\* the move takes a piece: the moves quiescence generates
IsCapture(board, mv) == piece_at(board, mv.to) # None \/ mv.flag = "EnPassant"

(***************************************************************************)
(* Endgame switch: src/src/eval/endgame.rs                                 *)
(***************************************************************************)
USE_ENDGAME_EVAL == TRUE

ENDGAME_PIECE_THRESHOLD == 6

MATERIAL_ADVANTAGE_THRESHOLD == 150

\* endgame.rs material_balance: positive = White ahead
material_balance(board) ==
    LET diff(piece) == Cardinality(PiecesOf(board, piece, "White"))
                         - Cardinality(PiecesOf(board, piece, "Black"))
    IN 100 * diff("Pawn") + 320 * diff("Knight") + 330 * diff("Bishop")
         + 500 * diff("Rook") + 900 * diff("Queen")

should_use_endgame(board) ==
    LET piece_count ==
            Cardinality({p \in board.pieces : p.piece \in {"Knight", "Bishop", "Rook", "Queen"}})
    IN IF ~USE_ENDGAME_EVAL THEN FALSE
       ELSE IF piece_count <= 3 THEN TRUE
       ELSE IF piece_count <= ENDGAME_PIECE_THRESHOLD
            THEN Abs(material_balance(board)) >= MATERIAL_ADVANTAGE_THRESHOLD
       ELSE FALSE

(***************************************************************************)
(* NNUE evaluator: src/src/eval/nnue.rs, src/src/eval/mod.rs               *)
(***************************************************************************)
\* The accumulator of a perspective is the sum of the weight columns of its
\* active features; it is kept here as the features with the number of times
\* each one was added less the times it was subtracted, zeros left out.
FeatureCount(features, f) ==
    IF \E e \in features : e[1] = f
    THEN (CHOOSE e \in features : e[1] = f)[2]
    ELSE 0

AdjustFeature(features, f, d) ==
    LET c == FeatureCount(features, f) + d
    IN {e \in features : e[1] # f} \cup (IF c # 0 THEN {<<f, c>>} ELSE {})

\* state.add(perspective, piece, color, sq)
StateAdd(state, perspective, piece, color, sq) ==
    [state EXCEPT ![perspective] = AdjustFeature(@, <<piece, color, sq>>, 1)]

\* state.sub(perspective, piece, color, sq)
StateSub(state, perspective, piece, color, sq) ==
    [state EXCEPT ![perspective] = AdjustFeature(@, <<piece, color, sq>>, -1)]

\* the pair of calls on both perspectives
AddBoth(state, piece, color, sq) ==
    StateAdd(StateAdd(state, "White", piece, color, sq), "Black", piece, color, sq)

SubBoth(state, piece, color, sq) ==
    StateSub(StateSub(state, "White", piece, color, sq), "Black", piece, color, sq)

find_king_square(board, color) ==
    LET king_bb == PiecesOf(board, "King", color)
    IN IF king_bb # {} THEN (CHOOSE k \in king_bb : TRUE).sq ELSE 4

\* create_state: model.new_state on the king squares, then every piece that
\* is not a king added to both perspectives
create_state(board) ==
    LET features == { <<<<p.piece, p.color, p.sq>>, 1>> :
                        p \in {q \in board.pieces : q.piece # "King"} }
    IN [white_king |-> find_king_square(board, "White"),
        black_king |-> find_king_square(board, "Black"),
        White |-> features,
        Black |-> features]

\* update_state_for_move without its early return for a king move
update_state_for_move_any_piece(state, board, mv) ==
    LET from == mv.from
        to == mv.to
        moving == piece_at(board, from)
        moving_piece == Unwrap(moving).piece
        moving_color == Unwrap(moving).color
        captured == piece_at(board, to)
        s1 == SubBoth(state, moving_piece, moving_color, from)
        s2 == IF captured # None /\ Unwrap(captured).piece # "King"
              THEN SubBoth(s1, Unwrap(captured).piece, OtherColor(moving_color), to)
              ELSE s1
        ep_sq == IF moving_color = "White" THEN from_file_rank(to % 8, 4)
                 ELSE from_file_rank(to % 8, 3)
        s3 == IF moving_piece = "Pawn" /\ mv.flag = "EnPassant"
              THEN SubBoth(s2, "Pawn", OtherColor(moving_color), ep_sq)
              ELSE s2
        final_piece == IF promotion_piece(mv.flag) # None
                       THEN Unwrap(promotion_piece(mv.flag)) ELSE moving_piece
        s4 == AddBoth(s3, final_piece, moving_color, to)
        rank == from \div 8
        rook_from == IF mv.flag = "KingCastle" THEN from_file_rank(7, rank)
                     ELSE from_file_rank(0, rank)
        rook_to == IF mv.flag = "KingCastle" THEN from_file_rank(5, rank)
                   ELSE from_file_rank(3, rank)
        s5 == IF mv.flag \in {"KingCastle", "QueenCastle"}
              THEN AddBoth(SubBoth(s4, "Rook", moving_color, rook_from),
                           "Rook", moving_color, rook_to)
              ELSE s4
    IN IF moving = None THEN [ok |-> FALSE, state |-> state]
       ELSE [ok |-> TRUE, state |-> s5]

\* update_state_for_move: the return value and the state it leaves
update_state_for_move(state, board, mv) ==
    IF piece_at(board, mv.from) # None /\ Unwrap(piece_at(board, mv.from)).piece = "King"
    THEN [ok |-> FALSE, state |-> state]
    ELSE update_state_for_move_any_piece(state, board, mv)

\* SearchEvaluator::evaluate of the Nnue variant: the evaluation that runs
\* and, for the network, the accumulator it runs on
NnueEvaluate(state, board) ==
    IF USE_ENDGAME_EVAL /\ should_use_endgame(board)
    THEN [by |-> "endgame"]
    ELSE [by |-> "nnue", state |-> state, side_to_move |-> board.turn]

\* nothing searched
NnueInit ==
    /\ evalBoard = EvalBoard(FALSE, FALSE, FALSE, "White")
    /\ accumulator = create_state(evalBoard)
    /\ lastEval = [op |-> "none"]

\* a node with an evaluator built for its board and a move to make
NnueInputs ==
    \E pos \in EvalPositions :
        /\ evalBoard = pos[1]
        /\ accumulator = create_state(pos[1])
        /\ lastEval = [op |-> "node", mv |-> pos[2]]

\* NnueEvaluator::update_move on the evaluator of the node
UpdateMove ==
    /\ lastEval.op = "node"
    /\ LET r == update_state_for_move(accumulator, evalBoard, lastEval.mv)
       IN /\ accumulator' = r.state
          /\ evalBoard' = make_move_new(evalBoard, lastEval.mv)
          /\ lastEval' = [op |-> "update_move", mv |-> lastEval.mv, ok |-> r.ok,
                          before |-> accumulator, board_before |-> evalBoard]
    /\ NnueFrame

\* quiescence searches a capture: it makes the move, clones the evaluator,
\* calls update_move on the clone and recurses, the child node evaluating its
\* board first
QsearchCapture ==
    /\ lastEval.op = "node"
    /\ IsCapture(evalBoard, lastEval.mv)
    /\ LET new_board == make_move_new(evalBoard, lastEval.mv)
           child == update_state_for_move(accumulator, evalBoard, lastEval.mv)
       IN /\ accumulator' = child.state
          /\ evalBoard' = new_board
          /\ lastEval' = [op |-> "quiescence", mv |-> lastEval.mv, ok |-> child.ok,
                          refreshed |-> FALSE,
                          evaluate |-> NnueEvaluate(child.state, new_board)]
    /\ NnueFrame

\* C18: in quiescence, when update_move on the cloned child evaluator returns
\* false, refresh(board_after) is called on it before its next evaluate, so no
\* evaluate runs on an accumulator that does not correspond to the board
\* being evaluated.
C18_RefreshBeforeEvaluate ==
    lastEval.op = "quiescence" =>
        /\ ~lastEval.ok => lastEval.refreshed
        /\ lastEval.evaluate.by = "nnue" => lastEval.evaluate.state = create_state(evalBoard)

\* the piece that made the last move
MovedPiece == Unwrap(piece_at(lastEval.board_before, lastEval.mv.from)).piece

\* C19: for a legal move of a piece that is not a king (quiet move, capture,
\* en passant, promotion, capturing promotion) update_move returns true and
\* leaves the accumulator with exactly the features, in both perspectives,
\* that create_state builds for the board after the move; for a king move,
\* castling included, it returns false and leaves the accumulator unchanged.
C19_UpdateEqualsRebuild ==
    lastEval.op = "update_move" =>
        IF MovedPiece # "King"
        THEN lastEval.ok /\ accumulator = create_state(evalBoard)
        ELSE ~lastEval.ok /\ accumulator = lastEval.before

\* update_move was handed an en passant capture by Black and changed the
\* accumulator
C19_Witness ==
    /\ lastEval.op = "update_move"
    /\ lastEval.mv.flag = "EnPassant"
    /\ lastEval.board_before.turn = "Black"
    /\ lastEval.ok
    /\ accumulator # lastEval.before

(***************************************************************************)
(* Hand-crafted evaluation: src/src/eval/hce.rs                            *)
(***************************************************************************)
\* S::new: a middlegame and an endgame score, i16 each
S(mg, eg) == [mg |-> mg, eg |-> eg]

\* Add and Sub of S: wrapping on each half
SAdd(a, b) == S(AsI16(a.mg + b.mg), AsI16(a.eg + b.eg))

SSub(a, b) == S(AsI16(a.mg - b.mg), AsI16(a.eg - b.eg))

\* hce.rs PIECE_VALUES
HCE_PIECE_VALUES ==
    << S(100, 120), S(320, 300), S(330, 320), S(500, 550), S(950, 1000), S(0, 0) >>

BISHOP_PAIR == S(35, 50)

\* PST.0[piece][square], White's perspective, a1 = 0
PST ==
    <<\* Pawn
       << S(0, 0), S(0, 0), S(0, 0), S(0, 0), S(0, 0), S(0, 0), S(0, 0), S(0, 0),
          S(5, 5), S(10, 5), S(10, 5), S(-20, 5), S(-20, 5), S(10, 5), S(10, 5), S(5, 5),
          S(5, 10), S(-5, 10), S(-10, 10), S(0, 10), S(0, 10), S(-10, 10), S(-5, 10), S(5, 10),
          S(0, 25), S(0, 25), S(0, 25), S(20, 25), S(20, 25), S(0, 25), S(0, 25), S(0, 25),
          S(5, 40), S(5, 40), S(10, 40), S(25, 40), S(25, 40), S(10, 40), S(5, 40), S(5, 40),
          S(10, 60), S(10, 60), S(20, 60), S(30, 60), S(30, 60), S(20, 60), S(10, 60), S(10, 60),
          S(50, 100), S(50, 100), S(50, 100), S(50, 100), S(50, 100), S(50, 100), S(50, 100), S(50, 100),
          S(0, 0), S(0, 0), S(0, 0), S(0, 0), S(0, 0), S(0, 0), S(0, 0), S(0, 0) >>,
       \* Knight
       << S(-50, -50), S(-40, -40), S(-30, -30), S(-30, -30), S(-30, -30), S(-30, -30), S(-40, -40), S(-50, -50),
          S(-40, -40), S(-20, -20), S(0, 0), S(5, 5), S(5, 5), S(0, 0), S(-20, -20), S(-40, -40),
          S(-30, -30), S(5, 5), S(10, 10), S(15, 15), S(15, 15), S(10, 10), S(5, 5), S(-30, -30),
          S(-30, -30), S(0, 0), S(15, 15), S(20, 20), S(20, 20), S(15, 15), S(0, 0), S(-30, -30),
          S(-30, -30), S(5, 5), S(15, 15), S(20, 20), S(20, 20), S(15, 15), S(5, 5), S(-30, -30),
          S(-30, -30), S(0, 0), S(10, 10), S(15, 15), S(15, 15), S(10, 10), S(0, 0), S(-30, -30),
          S(-40, -40), S(-20, -20), S(0, 0), S(0, 0), S(0, 0), S(0, 0), S(-20, -20), S(-40, -40),
          S(-50, -50), S(-40, -40), S(-30, -30), S(-30, -30), S(-30, -30), S(-30, -30), S(-40, -40), S(-50, -50) >>,
       \* Bishop
       << S(-20, -20), S(-10, -10), S(-10, -10), S(-10, -10), S(-10, -10), S(-10, -10), S(-10, -10), S(-20, -20),
          S(-10, -10), S(5, 0), S(0, 0), S(0, 0), S(0, 0), S(0, 0), S(5, 0), S(-10, -10),
          S(-10, -10), S(10, 10), S(10, 10), S(10, 10), S(10, 10), S(10, 10), S(10, 10), S(-10, -10),
          S(-10, -10), S(0, 0), S(10, 10), S(10, 10), S(10, 10), S(10, 10), S(0, 0), S(-10, -10),
          S(-10, -10), S(5, 5), S(5, 5), S(10, 10), S(10, 10), S(5, 5), S(5, 5), S(-10, -10),
          S(-10, -10), S(0, 0), S(5, 5), S(10, 10), S(10, 10), S(5, 5), S(0, 0), S(-10, -10),
          S(-10, -10), S(0, 0), S(0, 0), S(0, 0), S(0, 0), S(0, 0), S(0, 0), S(-10, -10),
          S(-20, -20), S(-10, -10), S(-10, -10), S(-10, -10), S(-10, -10), S(-10, -10), S(-10, -10), S(-20, -20) >>,
       \* Rook
       << S(0, 0), S(0, 0), S(0, 5), S(5, 5), S(5, 5), S(0, 5), S(0, 0), S(0, 0),
          S(-5, -5), S(0, 0), S(0, 0), S(0, 0), S(0, 0), S(0, 0), S(0, 0), S(-5, -5),
          S(-5, -5), S(0, 0), S(0, 0), S(0, 0), S(0, 0), S(0, 0), S(0, 0), S(-5, -5),
          S(-5, -5), S(0, 0), S(0, 0), S(0, 0), S(0, 0), S(0, 0), S(0, 0), S(-5, -5),
          S(-5, -5), S(0, 0), S(0, 0), S(0, 0), S(0, 0), S(0, 0), S(0, 0), S(-5, -5),
          S(-5, -5), S(0, 0), S(0, 0), S(0, 0), S(0, 0), S(0, 0), S(0, 0), S(-5, -5),
          S(5, 10), S(10, 10), S(10, 10), S(10, 10), S(10, 10), S(10, 10), S(10, 10), S(5, 10),
          S(0, 0), S(0, 0), S(0, 0), S(0, 0), S(0, 0), S(0, 0), S(0, 0), S(0, 0) >>,
       \* Queen
       << S(-20, -20), S(-10, -10), S(-10, -10), S(-5, -5), S(-5, -5), S(-10, -10), S(-10, -10), S(-20, -20),
          S(-10, -10), S(0, 0), S(5, 0), S(0, 0), S(0, 0), S(0, 0), S(0, 0), S(-10, -10),
          S(-10, -10), S(5, 5), S(5, 5), S(5, 5), S(5, 5), S(5, 5), S(0, 5), S(-10, -10),
          S(0, -5), S(0, 0), S(5, 5), S(5, 5), S(5, 5), S(5, 5), S(0, 0), S(-5, -5),
          S(-5, -5), S(0, 0), S(5, 5), S(5, 5), S(5, 5), S(5, 5), S(0, 0), S(-5, -5),
          S(-10, -10), S(0, 0), S(5, 5), S(5, 5), S(5, 5), S(5, 5), S(0, 0), S(-10, -10),
          S(-10, -10), S(0, 0), S(0, 0), S(0, 0), S(0, 0), S(0, 0), S(0, 0), S(-10, -10),
          S(-20, -20), S(-10, -10), S(-10, -10), S(-5, -5), S(-5, -5), S(-10, -10), S(-10, -10), S(-20, -20) >>,
       \* King
       << S(20, -50), S(30, -30), S(10, -30), S(0, -30), S(0, -30), S(10, -30), S(30, -30), S(20, -50),
          S(20, -30), S(20, -30), S(0, 0), S(0, 0), S(0, 0), S(0, 0), S(20, -30), S(20, -30),
          S(-10, -30), S(-20, -10), S(-20, 20), S(-20, 30), S(-20, 30), S(-20, 20), S(-20, -10), S(-10, -30),
          S(-20, -30), S(-30, -10), S(-30, 30), S(-40, 40), S(-40, 40), S(-30, 30), S(-30, -10), S(-20, -30),
          S(-30, -30), S(-40, -10), S(-40, 30), S(-50, 40), S(-50, 40), S(-40, 30), S(-40, -10), S(-30, -30),
          S(-30, -30), S(-40, -10), S(-40, 20), S(-50, 30), S(-50, 30), S(-40, 20), S(-40, -10), S(-30, -30),
          S(-30, -30), S(-40, -20), S(-40, -10), S(-50, 0), S(-50, 0), S(-40, -10), S(-40, -20), S(-30, -30),
          S(-30, -50), S(-40, -40), S(-40, -30), S(-50, -20), S(-50, -20), S(-40, -30), S(-40, -40), S(-30, -50) >> >>

CENTER_DIST(sq) ==
    LET file == sq % 8
        rank == sq \div 8
        fd == IF file < 4 THEN 3 - file ELSE file - 4
        rd == IF rank < 4 THEN 3 - rank ELSE rank - 4
    IN fd + rd

CORNER_DIST(sq) ==
    LET file == sq % 8
        rank == sq \div 8
        fd == IF file < 4 THEN file ELSE 7 - file
        rd == IF rank < 4 THEN rank ELSE 7 - rank
    IN fd + rd

KING_DIST(sq1, sq2) ==
    LET fd == Abs((sq1 % 8) - (sq2 % 8))
        rd == Abs((sq1 \div 8) - (sq2 \div 8))
    IN IF fd > rd THEN fd ELSE rd

\* the squares of PASSED_MASK_WHITE[sq]: the ranks above on the file and the
\* files next to it
PASSED_MASK_WHITE(sq) ==
    { r * 8 + f : r \in ((sq \div 8) + 1)..7,
                  f \in {g \in {(sq % 8) - 1, (sq % 8), (sq % 8) + 1} : g \in 0..7} }

\* the squares of PASSED_MASK_BLACK[sq]: the ranks below
PASSED_MASK_BLACK(sq) ==
    { r * 8 + f : r \in 0..((sq \div 8) - 1),
                  f \in {g \in {(sq % 8) - 1, (sq % 8), (sq % 8) + 1} : g \in 0..7} }

PASSED_BONUS ==
    << S(0, 0), S(5, 10), S(10, 20), S(20, 40), S(40, 70), S(70, 120), S(120, 200), S(0, 0) >>

PHASE_TOTAL == 24

\* board.piece_bb(piece).count()
CountOf(board, piece) == Cardinality({p \in board.pieces : p.piece = piece})

calculate_phase(board) ==
    LET material == CountOf(board, "Knight") + CountOf(board, "Bishop")
                      + 2 * CountOf(board, "Rook") + 4 * CountOf(board, "Queen")
        phase == PHASE_TOTAL - material
    IN IF phase < 0 THEN 0
       ELSE IF phase > PHASE_TOTAL THEN 256
       ELSE (phase * 256) \div PHASE_TOTAL

\* the sum of the scores of a set of <<piece, score>> pairs
RECURSIVE SumScores(_)
SumScores(scored) ==
    IF scored = {} THEN S(0, 0)
    ELSE LET x == CHOOSE x \in scored : TRUE
         IN SAdd(x[2], SumScores(scored \ {x}))

\* eval_passed_pawns::<IS_WHITE>
eval_passed_pawns(board, is_white) ==
    LET color == IF is_white THEN "White" ELSE "Black"
        our_pawns == PiecesOf(board, "Pawn", color)
        enemy_pawns == {p.sq : p \in PiecesOf(board, "Pawn", OtherColor(color))}
        mask(sq) == IF is_white THEN PASSED_MASK_WHITE(sq) ELSE PASSED_MASK_BLACK(sq)
        rank(sq) == IF is_white THEN (sq \div 8) ELSE 7 - (sq \div 8)
    IN SumScores({ <<p, PASSED_BONUS[rank(p.sq) + 1]>> :
                     p \in {q \in our_pawns : enemy_pawns \cap mask(q.sq) = {}} })

\* eval_side::<IS_WHITE>
eval_side(board, is_white) ==
    LET color == IF is_white THEN "White" ELSE "Black"
        sq_idx(sq) == IF is_white THEN sq ELSE (7 - (sq \div 8)) * 8 + (sq % 8)
        man_score(p) ==
            SAdd(IF PieceIndex(p.piece) < 5 THEN HCE_PIECE_VALUES[PieceIndex(p.piece) + 1]
                 ELSE S(0, 0),
                 PST[PieceIndex(p.piece) + 1][sq_idx(p.sq) + 1])
        men == SumScores({ <<p, man_score(p)>> : p \in {q \in board.pieces : q.color = color} })
        pair == IF Cardinality(PiecesOf(board, "Bishop", color)) >= 2
                THEN SAdd(men, BISHOP_PAIR) ELSE men
    IN SAdd(pair, eval_passed_pawns(board, is_white))

\* hce.rs material_balance
hce_material_balance(board) ==
    LET diff(piece) == Cardinality(PiecesOf(board, piece, "White"))
                         - Cardinality(PiecesOf(board, piece, "Black"))
    IN 100 * diff("Pawn") + 320 * diff("Knight") + 330 * diff("Bishop")
         + 500 * diff("Rook") + 900 * diff("Queen")

\* board.king_square(color)
king_square(board, color) == (CHOOSE k \in PiecesOf(board, "King", color) : TRUE).sq

\* hce.rs endgame_bonuses
endgame_bonuses(board, phase) ==
    LET scale == phase - 128
        material == hce_material_balance(board)
        winning_color == IF material > 0 THEN "White" ELSE "Black"
        winner_sq == king_square(board, winning_color)
        loser_sq == king_square(board, OtherColor(winning_color))
        corner_bonus == (6 - CORNER_DIST(loser_sq)) * 8
        edge_bonus == CENTER_DIST(loser_sq) * 6
        proximity_bonus == (7 - KING_DIST(winner_sq, loser_sq)) * 5
        total_bonus == corner_bonus + edge_bonus + proximity_bonus
        scaled == TruncDiv(total_bonus * scale, 128)
    IN IF Abs(material) < 100 THEN S(0, 0)
       ELSE IF material > 0 THEN S(0, AsI16(scaled))
       ELSE S(0, AsI16(-scaled))

\* hce::evaluate
hce_evaluate(board) ==
    LET phase == calculate_phase(board)
        net == SSub(eval_side(board, TRUE), eval_side(board, FALSE))
        score == IF phase > 128 THEN SAdd(net, endgame_bonuses(board, phase)) ELSE net
        tapered == TruncDiv(score.mg * (256 - phase) + score.eg * phase, 256)
    IN IF board.turn = "White" THEN ScoreOf(tapered) ELSE ScoreOf(-tapered)

(***************************************************************************)
(* Endgame evaluation: src/src/eval/endgame.rs                             *)
(***************************************************************************)
corner_distance(sq) ==
    LET file == sq % 8
        rank == sq \div 8
    IN Min(file, 7 - file) + Min(rank, 7 - rank)

center_distance(sq) ==
    LET file == sq % 8
        rank == sq \div 8
    IN Min(Abs(file - 3), Abs(file - 4)) + Min(Abs(rank - 3), Abs(rank - 4))

king_distance(sq1, sq2) ==
    Max(Abs((sq1 % 8) - (sq2 % 8)), Abs((sq1 \div 8) - (sq2 \div 8)))

\* endgame.rs passed_pawn_bonus
passed_pawn_bonus(board, color) ==
    LET pawns == PiecesOf(board, "Pawn", color)
        enemy_pawns == {p.sq : p \in PiecesOf(board, "Pawn", OtherColor(color))}
        files_to_check(sq) == {Max((sq % 8) - 1, 0), (sq % 8), Min((sq % 8) + 1, 7)}
        ranks(sq) == IF color = "White" THEN ((sq \div 8) + 1)..7 ELSE 0..((sq \div 8) - 1)
        blocking(sq) == {r * 8 + f : r \in ranks(sq), f \in files_to_check(sq)}
        advancement(sq) == IF color = "White" THEN (sq \div 8) ELSE 7 - (sq \div 8)
        bonus(sq) == CASE advancement(sq) = 6 -> 200
                       [] advancement(sq) = 5 -> 120
                       [] advancement(sq) = 4 -> 60
                       [] advancement(sq) = 3 -> 30
                       [] advancement(sq) = 2 -> 15
                       [] OTHER -> 5
        passed == {p \in pawns : enemy_pawns \cap blocking(p.sq) = {}}
        RECURSIVE Total(_)
        Total(ps) == IF ps = {} THEN 0
                     ELSE LET p == CHOOSE p \in ps : TRUE IN bonus(p.sq) + Total(ps \ {p})
    IN Total(passed)

\* endgame::evaluate; hash_mod is board.hash() % 11
endgame_evaluate(board, hash_mod) ==
    LET material == material_balance(board)
        winning_side == IF material > 50 THEN "White" ELSE "Black"
        winner_king == king_square(board, winning_side)
        loser_king == king_square(board, OtherColor(winning_side))
        material_mult == IF Abs(material) > 300 THEN 2 ELSE 1
        loser_corner_dist == corner_distance(loser_king)
        corner_bonus == (6 - loser_corner_dist) * 40
        corner_trap == IF loser_corner_dist = 0 THEN 100 ELSE 0
        proximity_bonus == (7 - king_distance(winner_king, loser_king)) * 25
        loser_center_dist == center_distance(loser_king)
        edge_bonus == loser_center_dist * 20
        edge_trap == IF loser_center_dist >= 3 THEN 50 ELSE 0
        centralization == (4 - center_distance(winner_king)) * 10
        passed_diff == passed_pawn_bonus(board, "White") - passed_pawn_bonus(board, "Black")
        bonuses == corner_bonus + corner_trap + proximity_bonus + edge_bonus
                     + edge_trap + centralization
        endgame_bonus == IF winning_side = "White" THEN bonuses ELSE -bonuses
        hash_component == IF Abs(material) > 100 THEN hash_mod - 5 ELSE 0
        score == material * material_mult + endgame_bonus + passed_diff + hash_component
    IN IF material <= 50 /\ material >= -50 THEN hce_evaluate(board)
       ELSE IF board.turn = "White" THEN ScoreOf(score) ELSE ScoreOf(-score)

(***************************************************************************)
(* Evaluator variants: src/src/eval/mod.rs                                 *)
(***************************************************************************)
\* material_eval: White's perspective
material_eval(board) ==
    LET diff(piece) == Cardinality(PiecesOf(board, piece, "White"))
                         - Cardinality(PiecesOf(board, piece, "Black"))
    IN piece_value("Pawn") * diff("Pawn") + piece_value("Knight") * diff("Knight")
         + piece_value("Bishop") * diff("Bishop") + piece_value("Rook") * diff("Rook")
         + piece_value("Queen") * diff("Queen")

material_eval_wrapper(board) ==
    IF board.turn = "White" THEN ScoreOf(material_eval(board))
    ELSE ScoreOf(-material_eval(board))

\* SearchEvaluator::evaluate without the switch to the endgame evaluation
evaluate_variant(variant, board, hash_mod) ==
    CASE variant = "Hce" -> hce_evaluate(board)
      [] variant = "Endgame" -> endgame_evaluate(board, hash_mod)
      [] variant = "Material" -> material_eval_wrapper(board)

\* SearchEvaluator::evaluate of the stateless variants
SearchEvaluate(variant, board, hash_mod) ==
    IF USE_ENDGAME_EVAL /\ should_use_endgame(board)
    THEN endgame_evaluate(board, hash_mod)
    ELSE evaluate_variant(variant, board, hash_mod)

Variants == {"Hce", "Endgame", "Material"}

\* boards with few pieces: the two kings with nothing, a white rook, a white
\* pawn, a black queen, two white bishops against a knight, a rook and a
\* knight each without and with a white pawn more, two rooks each with a
\* white knight more
SparseBoards ==
    { [pieces |-> {Man("King", "White", wk), Man("King", "Black", bk)} \cup men, turn |-> turn] :
        wk \in {4, 12}, bk \in {36, 63}, turn \in Sides,
        men \in { {},
                  {Man("Rook", "White", 3)},
                  {Man("Pawn", "White", 35)},
                  {Man("Queen", "Black", 59)},
                  {Man("Bishop", "White", 2), Man("Bishop", "White", 5), Man("Knight", "Black", 57)},
                  {Man("Rook", "White", 0), Man("Knight", "White", 1),
                   Man("Rook", "Black", 56), Man("Knight", "Black", 57)},
                  {Man("Rook", "White", 0), Man("Knight", "White", 1), Man("Pawn", "White", 35),
                   Man("Rook", "Black", 56), Man("Knight", "Black", 57)},
                  {Man("Rook", "White", 0), Man("Rook", "White", 6), Man("Knight", "White", 1),
                   Man("Rook", "Black", 56), Man("Rook", "Black", 61)} } }

HceBoards ==
    SparseBoards
    \cup { EvalBoard(o[1], o[2], o[3], turn) : o \in BOOLEAN \X BOOLEAN \X BOOLEAN, turn \in Sides }

\* the residues of board.hash() modulo 11
HashResidues == 0..10

\* nothing evaluated
HceInit == lastHce = [op |-> "none"]

\* a node with a stateless evaluator and its board
HceInputs ==
    \E variant \in Variants, board \in HceBoards, hash_mod \in HashResidues :
        lastHce = [op |-> "node", variant |-> variant, board |-> board, hash_mod |-> hash_mod]

\* the node evaluates its board
Evaluate ==
    /\ lastHce.op = "node"
    /\ lastHce' = [op |-> "evaluate", variant |-> lastHce.variant, board |-> lastHce.board,
                    hash_mod |-> lastHce.hash_mod,
                    score |-> SearchEvaluate(lastHce.variant, lastHce.board, lastHce.hash_mod)]
    /\ HceFrame

\* C20: for the Hce variant SearchEvaluator::evaluate(board) returns
\* hce::evaluate(board) for every board, positions with few pieces included.
C20_HceEvaluatesHce ==
    (lastHce.op = "evaluate" /\ lastHce.variant = "Hce") =>
        lastHce.score = hce_evaluate(lastHce.board)

\* the knights, bishops, rooks and queens of the board
MinorMajorCount(board) ==
    CountOf(board, "Knight") + CountOf(board, "Bishop")
      + CountOf(board, "Rook") + CountOf(board, "Queen")

\* C20: for the Hce variant SearchEvaluator::evaluate(board) returns
\* hce::evaluate(board) on the boards with more than 6 knights, bishops, rooks
\* and queens and on those with 4 to 6 of them and a material balance under
\* 150; on the boards with at most 3 of them, or 4 to 6 and a balance of 150
\* or more, it returns endgame::evaluate(board), which is hce::evaluate(board)
\* only when the balance is within 50.
C20_HceUnlessEndgame ==
    (lastHce.op = "evaluate" /\ lastHce.variant = "Hce") =>
        LET board == lastHce.board
            few == \/ MinorMajorCount(board) <= 3
                   \/ /\ MinorMajorCount(board) <= 6
                      /\ Abs(material_balance(board)) >= 150
        IN /\ ~few => lastHce.score = hce_evaluate(board)
           /\ few => lastHce.score = endgame_evaluate(board, lastHce.hash_mod)
           /\ (few /\ Abs(material_balance(board)) <= 50)
                 => lastHce.score = hce_evaluate(board)

\* the Hce variant evaluated king and rook against king and returned a score
\* that is not the one of hce::evaluate
C20_Witness ==
    /\ lastHce.op = "evaluate"
    /\ lastHce.variant = "Hce"
    /\ MinorMajorCount(lastHce.board) = 1
    /\ material_balance(lastHce.board) = 500
    /\ lastHce.score # hce_evaluate(lastHce.board)

(***************************************************************************)
(* Mate scores through the table: src/src/types/score.rs                   *)
(***************************************************************************)
\* the largest distance n for which mate_in(n) is_mate and mated_in(n) is_mated
MateThreshold == SCORE_MATE - SCORE_MATE_IN_MAX

\* distances to mate from the position stored
MateDistances == {0, 1, 500, MateThreshold - (MAX_PLY - 1), MateThreshold - 1, MateThreshold}

\* the plies a score is read at
ReadPlies == {0, 1, 2, 63, 64, MAX_PLY - 2, MAX_PLY - 1}

\* a position at distance d from mate (or with the plain score s) is stored by
\* a node at ply p and read by a node at ply q
ReRootInputs ==
    \/ \E kind \in {"mate", "mated"}, p \in 0..(MAX_PLY - 1), q \in ReadPlies,
          d \in MateDistances :
          /\ p + d <= MateThreshold
          /\ q + d <= MateThreshold
          /\ lastScore = [op |-> "position", kind |-> kind, p |-> p, q |-> q, d |-> d,
                          s |-> IF kind = "mate" THEN mate_in(p + d) ELSE mated_in(p + d)]
    \/ \E p \in ReadPlies, q \in ReadPlies, s \in Scores :
          /\ ~is_mate(s)
          /\ ~is_mated(s)
          /\ lastScore = [op |-> "position", kind |-> "plain", p |-> p, q |-> q, d |-> 0,
                          s |-> s]

\* the score goes into the table at ply p and comes out at ply q
ReRoot ==
    /\ lastScore.op = "position"
    /\ lastScore' = [op |-> "re_rooted", kind |-> lastScore.kind, p |-> lastScore.p,
                     q |-> lastScore.q, d |-> lastScore.d, s |-> lastScore.s,
                     restored |-> from_tt(to_tt(lastScore.s, lastScore.p), lastScore.q)]
    /\ ScoreFrame

\* C23: for plies p, q in [0, MAX_PLY) and a distance d >= 0 with p + d and
\* q + d within the mate threshold, mate_in(p+d).to_tt(p).from_tt(q) =
\* mate_in(q+d) and mated_in(p+d).to_tt(p).from_tt(q) = mated_in(q+d); scores
\* that are not mate scores pass through to_tt and from_tt unchanged.
C23_MateReRooted ==
    lastScore.op = "re_rooted" =>
        lastScore.restored =
            CASE lastScore.kind = "mate" -> mate_in(lastScore.q + lastScore.d)
              [] lastScore.kind = "mated" -> mated_in(lastScore.q + lastScore.d)
              [] OTHER -> lastScore.s

\* a mated-in score stored at the deepest ply was read at ply 1 and came out
\* as another score, the one of the same distance seen from ply 1
C23_Witness ==
    /\ lastScore.op = "re_rooted"
    /\ lastScore.kind = "mated"
    /\ lastScore.p = MAX_PLY - 1
    /\ lastScore.q = 1
    /\ lastScore.d = 500
    /\ lastScore.s = (-SCORE_MATE) + 500 + (MAX_PLY - 1)
    /\ lastScore.restored = (-SCORE_MATE) + 501

(***************************************************************************)
(* Quiescence search: src/src/search/qsearch.rs                            *)
(***************************************************************************)
PIECE_VALUES == <<100, 320, 330, 500, 900, 0>>

\* qsearch.rs piece_value
qs_piece_value(piece) == PIECE_VALUES[PieceIndex(piece) + 1]

DELTA_MARGIN == 600

DELTA_SAFETY == 100

MAX_QSEARCH_DEPTH == 8

\* `-score`: Score(-self.0) on an i16
score_neg(score) == AsI16(-score)

\* the pieces of the largest board searched
MaxQsPieces == 4

\* the captures of the longest list generate_captures returns
MaxCaptures == 2

\* the calls in progress at most; no search of a board of MaxQsPieces pieces
\* comes near it
MaxQsFrames == 6

\* the captures of a list: a pawn takes a queen, a queen takes a defended
\* pawn, a pawn takes en passant, a pawn takes a knight and promotes; `good`
\* is is_good_capture_with_victim of the capture
Capture(victim, promotion, good) ==
    [victim |-> victim, promotion |-> promotion, good |-> good]

CaptureKinds ==
    { Capture(Some("Queen"), FALSE, TRUE), Capture(Some("Pawn"), FALSE, FALSE),
      Capture(None, FALSE, TRUE), Capture(Some("Knight"), TRUE, TRUE) }

\* the lengths of the lists generate_captures returns for a board of n
\* pieces: no capture when only the kings are left
CaptureCounts(n) == IF n <= 2 THEN {0} ELSE 0..MaxCaptures

\* what evaluate returns from the side to move
StandPats == {-700, -300, 700}

\* a board as quiescence reads it: the number of pieces, what the evaluator
\* returns for it, in_check() and the number of captures generate_captures()
\* returns; the captures themselves are drawn as the move loop comes to them
QsBoards(n) ==
    [ pieces : {n}, eval : StandPats, in_check : BOOLEAN, captures : CaptureCounts(n) ]

\* the pieces make_move_new leaves after a move that is no capture
pieces_after_quiet(pieces) == pieces

\* the pieces make_move_new leaves after a capture
pieces_after_capture(pieces) == pieces - 1

\* a call of quiescence that has not run yet; `evals` counts its calls of
\* evaluate and `deepest` (ghost) the calls in progress at the deepest point
\* under it
NewFrame(pieces, qply, alpha, beta, depth) ==
    [ pieces |-> pieces, qply |-> qply, alpha |-> alpha, beta |-> beta, pc |-> "call",
      stand_pat |-> 0, in_check |-> FALSE, best_score |-> 0, moves |-> 0,
      evals |-> 0, score |-> 0, deepest |-> depth ]

\* `return SearchResult { score, .. }`
Return(frame, score) == [frame EXCEPT !.pc = "return", !.score = score]

\* the early exits of quiescence with the big delta test before the depth limit
early_exit_delta_first(stand_pat, in_check, qply, alpha, beta) ==
    IF stand_pat >= beta THEN Some(beta)
    ELSE IF ~in_check /\ stand_pat + DELTA_MARGIN < alpha THEN Some(alpha)
    ELSE IF qply >= MAX_QSEARCH_DEPTH /\ ~in_check THEN Some(stand_pat)
    ELSE None

\* the early exits of quiescence before the captures are generated: the
\* score returned, or None
early_exit(stand_pat, in_check, qply, alpha, beta) ==
    IF stand_pat >= beta THEN Some(beta)
    ELSE IF qply >= MAX_QSEARCH_DEPTH /\ ~in_check THEN Some(stand_pat)
    ELSE IF ~in_check /\ stand_pat + DELTA_MARGIN < alpha THEN Some(alpha)
    ELSE None

\* quiescence on `board` from its first line to the head of the move loop;
\* `moves` counts the captures the loop has yet to visit
quiescence_entry(frame, board) ==
    LET stand_pat == board.eval
        in_check == board.in_check
        evaluated == [frame EXCEPT !.evals = @ + 1, !.stand_pat = stand_pat]
        exit == early_exit(stand_pat, in_check, frame.qply, frame.alpha, frame.beta)
        alpha == IF stand_pat > frame.alpha THEN stand_pat ELSE frame.alpha
        moves == board.captures
    IN IF exit # None THEN Return(evaluated, Unwrap(exit))
       ELSE IF moves = 0 THEN Return([evaluated EXCEPT !.alpha = alpha], alpha)
       ELSE [evaluated EXCEPT !.in_check = in_check, !.alpha = alpha,
                              !.best_score = stand_pat, !.moves = moves, !.pc = "loop"]

\* the two pruning tests of the move loop: the capture is skipped
capture_skipped(frame, m) ==
    LET captured_value == IF m.victim = None THEN 0 ELSE qs_piece_value(Unwrap(m.victim))
    IN \/ /\ ~frame.in_check
          /\ ~m.promotion
          /\ frame.stand_pat + captured_value + DELTA_SAFETY < frame.alpha
       \/ ~frame.in_check /\ ~m.good

\* the move loop after the recursive call, with no break on score >= beta
after_child_no_cutoff(frame, result) ==
    LET score == score_neg(result)
        next == [frame EXCEPT !.moves = @ - 1, !.pc = "loop"]
    IN IF score > frame.best_score
       THEN IF score > frame.alpha
            THEN [next EXCEPT !.best_score = score, !.alpha = score]
            ELSE [next EXCEPT !.best_score = score]
       ELSE next

\* the move loop after the recursive call has returned `result`
after_child(frame, result) ==
    LET score == score_neg(result)
        next == [frame EXCEPT !.moves = @ - 1, !.pc = "loop"]
    IN IF score > frame.best_score
       THEN IF score > frame.alpha
            THEN IF score >= frame.beta
                 THEN Return([frame EXCEPT !.best_score = score, !.alpha = score], score)
                 ELSE [next EXCEPT !.best_score = score, !.alpha = score]
            ELSE [next EXCEPT !.best_score = score]
       ELSE next

Top == frames[Len(frames)]

SetTop(frame) == [frames EXCEPT ![Len(frames)] = frame]

\* no search
QsInit ==
    /\ frames = <<>>
    /\ stopped = FALSE
    /\ lastQs = [op |-> "none"]

\* the windows quiescence is called with
QsWindows == { <<-SCORE_INFINITY, SCORE_INFINITY>>, <<-50, 50>> }

\* the qply of the calls looked at: the first of a search, and the last
\* under the depth limit, whose recursive calls are at the limit and past it
QsPlies == {0, MAX_QSEARCH_DEPTH - 1}

\* a call of quiescence is made, the stop predicate true or not
QsInputs ==
    \E n \in 2..MaxQsPieces, w \in QsWindows, qply \in QsPlies, s \in BOOLEAN :
        /\ frames = <<NewFrame(n, qply, w[1], w[2], 1)>>
        /\ stopped = s
        /\ lastQs = [op |-> "call"]

\* the stop flag is set, or the clock passes the hard limit
SetStop ==
    /\ frames # <<>>
    /\ ~stopped
    /\ stopped' = TRUE
    /\ UNCHANGED <<frames, lastQs>>
    /\ QsFrame

\* quiescence runs from its first line to the move loop, or returns
Enter ==
    /\ frames # <<>>
    /\ Top.pc = "call"
    /\ \E board \in QsBoards(Top.pieces) :
          /\ frames' = SetTop(quiescence_entry(Top, board))
          /\ lastQs' = [op |-> "enter", stopped |-> stopped, call |-> Top, board |-> board,
                        generated |-> (early_exit(board.eval, board.in_check, Top.qply,
                                                  Top.alpha, Top.beta) = None)]
    /\ UNCHANGED stopped
    /\ QsFrame

\* one turn of the move loop: the loop ends, or the capture is skipped, or
\* the move is made and quiescence called on the new board
Iterate ==
    /\ frames # <<>>
    /\ Top.pc = "loop"
    /\ IF Top.moves = 0 \/ stopped
       THEN /\ frames' = SetTop(Return(Top, Top.best_score))
            /\ lastQs' = [op |-> "loop_end", stopped |-> stopped]
       ELSE \E m \in CaptureKinds :
               IF capture_skipped(Top, m)
               THEN /\ frames' = SetTop([Top EXCEPT !.moves = @ - 1])
                    /\ lastQs' = [op |-> "skip", stopped |-> stopped]
               ELSE /\ Len(frames) < MaxQsFrames
                    /\ frames' = Append(SetTop([Top EXCEPT !.pc = "wait"]),
                                        NewFrame(pieces_after_capture(Top.pieces), Top.qply + 1,
                                                 score_neg(Top.beta), score_neg(Top.alpha),
                                                 Len(frames) + 1))
                    /\ lastQs' = [op |-> "recurse", stopped |-> stopped]
    /\ UNCHANGED stopped
    /\ QsFrame

\* a recursive call returns to the move loop of its caller
Resume ==
    /\ Len(frames) >= 2
    /\ Top.pc = "return"
    /\ LET caller == frames[Len(frames) - 1]
       IN frames' = [SubSeq(frames, 1, Len(frames) - 1) EXCEPT
                        ![Len(frames) - 1] =
                            [after_child(caller, Top.score) EXCEPT
                                !.deepest = Max(caller.deepest, Top.deepest)]]
    /\ lastQs' = [op |-> "resume", stopped |-> stopped]
    /\ UNCHANGED stopped
    /\ QsFrame

\* the outermost call returns to the search
Finish ==
    /\ Len(frames) = 1
    /\ Top.pc = "return"
    /\ frames' = <<>>
    /\ lastQs' = [op |-> "result", stopped |-> stopped, call |-> Top]
    /\ UNCHANGED stopped
    /\ QsFrame

C22_StopPolledAtEntry ==
    (lastQs.op = "enter" /\ lastQs.stopped) =>
        /\ Top.pc = "return"
        /\ Top.evals = 0
        /\ ~lastQs.generated

\* C28: when quiescence is called with alpha < beta, every recursive call it
\* makes receives a window whose alpha is strictly below its beta, at every
\* recursion depth: a call that has not returned has alpha < beta, and the
\* window of a call just made is (-beta, -alpha) of its caller.
C28_WindowPreserved ==
    \A i \in 1..Len(frames) :
        /\ frames[i].pc # "return" => frames[i].alpha < frames[i].beta
        /\ (i > 1 /\ frames[i].pc = "call") =>
              /\ frames[i].alpha = -frames[i - 1].beta
              /\ frames[i].beta = -frames[i - 1].alpha

\* C28 witness: a second recursive call, made after the score of the first
\* has raised alpha above the stand-pat score
C28_Witness ==
    /\ lastQs.op = "recurse"
    /\ Len(frames) = 2
    /\ frames[1].alpha > frames[1].stand_pat
    /\ frames[1].alpha = frames[1].best_score
    /\ frames[1].moves = 1
    /\ frames[2].alpha = score_neg(frames[1].beta)
    /\ frames[2].beta = score_neg(frames[1].alpha)
    /\ frames[2].alpha < frames[2].beta

\* every call in progress is on a board with one piece less than its caller's
\* and at least the two kings, one qply further, made by a caller that is in
\* check or below the depth limit, and has a bounded number of captures left
QsDepthBounded ==
    \A i \in 1..Len(frames) :
        /\ frames[i].pieces = frames[1].pieces - (i - 1)
        /\ frames[i].pieces >= 2
        /\ frames[i].qply = frames[1].qply + (i - 1)
        /\ frames[i].moves \in 0..MaxCaptures
        /\ i < Len(frames) =>
              /\ frames[i].pc = "wait"
              /\ frames[i].qply < MAX_QSEARCH_DEPTH \/ frames[i].in_check

\* C30: quiescence terminates on every board without relying on
\* cancellation: the recursion depth is bounded by the number of pieces on the
\* board (and by qply 8 when the side to move is not in check), every call
\* visits a finite capture list, and the outermost call returns.
C30_QuiescenceTerminates ==
    /\ []QsDepthBounded
    /\ <>(lastQs.op = "result")

\* C30 witness: the search of a board of MaxQsPieces pieces returns, never
\* stopped, after a call on the bare kings at the deepest point
C30_Witness ==
    /\ lastQs.op = "result"
    /\ ~stopped
    /\ frames = <<>>
    /\ lastQs.call.pieces = MaxQsPieces
    /\ lastQs.call.deepest = MaxQsPieces - 1

(***************************************************************************)
(* Specifications                                                          *)
(***************************************************************************)
\* every component as constructed
Init == TTInit /\ ScoreInit /\ KillerInit /\ HistoryInit /\ TimeInit /\ SeeInit /\ OrderInit /\ NnueInit /\ HceInit /\ QsInit

\* one table through many searches, stores on one slot
TTNext ==
    \/ NewSearch(MaxSearches)
    \/ \E c \in SlotCalls : Store(c)
    \/ Clear
    \/ \E mb \in ResizeSizes : Resize(mb)

SpecTT == Init /\ [][TTNext]_vars

\* few searches, stores on all the slots
FullNext ==
    \/ NewSearch(MaxFullSearches)
    \/ \E c \in StoreCalls : Store(c)
    \/ Clear
    \/ \E mb \in ResizeSizes : Resize(mb)

SpecFull == Init /\ [][FullNext]_vars

\* the sizes new() is called with in SpecNew: 0..MaxSizeMb MiB
MaxSizeMb == 130

\* TranspositionTable::new(mb) for each size
NewInputs ==
    \E mb \in 0..MaxSizeMb :
        /\ num_entries = NewNumEntries(mb)
        /\ entries = [i \in SlotsOf(NewNumEntries(mb)) |-> DefaultEntry]
        /\ generation = 0
        /\ size_mb = mb
        /\ searches = 0
        /\ fresh = {}
        /\ lastTT = [op |-> "new"]

InitNew == NewInputs /\ ScoreInit /\ KillerInit /\ HistoryInit /\ TimeInit /\ SeeInit /\ OrderInit /\ NnueInit /\ HceInit /\ QsInit

\* a new table takes a store and is resized to the default size
NewNext ==
    \/ \E c \in StoreCalls : lastTT.op = "new" /\ Store(c)
    \/ lastTT.op # "resize" /\ Resize(DefaultSizeMb)

SpecNew == InitNew /\ [][NewNext]_vars

InitScore == TTInit /\ ScoreInputs /\ KillerInit /\ HistoryInit /\ TimeInit /\ SeeInit /\ OrderInit /\ NnueInit /\ HceInit /\ QsInit

\* the score conversions over the sampled scores and every ply
ScoreNext == RoundTrip

SpecScore == InitScore /\ [][ScoreNext]_vars

KillerNext ==
    \/ \E ply \in KillerPlies, mv \in KillerMoves : KillerStore(ply, mv)
    \/ KillerClear

SpecKillers == Init /\ [][KillerNext]_vars

HistoryNext ==
    \/ \E k \in HistKeys, bonus \in HistBonuses : HistoryUpdate(k, bonus)
    \/ \E best \in HistKeys, depth \in CutoffDepths, quiets \in QuietLists :
          UpdateOnCutoff(best, depth, quiets)
    \/ HistoryAge
    \/ HistoryClear

SpecHistory == Init /\ [][HistoryNext]_vars

InitTime == TTInit /\ ScoreInit /\ KillerInit /\ HistoryInit /\ TimeInputs /\ SeeInit /\ OrderInit /\ NnueInit /\ HceInit /\ QsInit

TimeNext ==
    \/ FromLimits
    \/ \E elapsed \in ElapsedTimes : Poll(elapsed)

SpecTime == InitTime /\ [][TimeNext]_vars

InitSee ==
    TTInit /\ ScoreInit /\ KillerInit /\ HistoryInit /\ TimeInit /\ SeeInputs /\ OrderInit /\ NnueInit /\ HceInit /\ QsInit

SeeNext == \E in_check \in BOOLEAN : SeeCapture(in_check)

SpecSee == InitSee /\ [][SeeNext]_vars

InitOrder ==
    TTInit /\ ScoreInit /\ KillerInit /\ HistoryInit /\ TimeInit /\ SeeInit /\ OrderInputs /\ NnueInit /\ HceInit /\ QsInit

OrderNext == OrderMoveList

SpecOrder == InitOrder /\ [][OrderNext]_vars

InitNnue ==
    TTInit /\ ScoreInit /\ KillerInit /\ HistoryInit /\ TimeInit /\ SeeInit /\ OrderInit /\ NnueInputs /\ HceInit /\ QsInit

NnueNext ==
    \/ UpdateMove
    \/ QsearchCapture

SpecNnue == InitNnue /\ [][NnueNext]_vars

InitHce ==
    TTInit /\ ScoreInit /\ KillerInit /\ HistoryInit /\ TimeInit /\ SeeInit /\ OrderInit /\ NnueInit /\ HceInputs /\ QsInit

HceNext == Evaluate

SpecHce == InitHce /\ [][HceNext]_vars

InitReRoot ==
    TTInit /\ ReRootInputs /\ KillerInit /\ HistoryInit /\ TimeInit /\ SeeInit /\ OrderInit /\ NnueInit /\ HceInit /\ QsInit

ReRootNext == ReRoot

SpecReRoot == InitReRoot /\ [][ReRootNext]_vars

InitQs ==
    TTInit /\ ScoreInit /\ KillerInit /\ HistoryInit /\ TimeInit /\ SeeInit /\ OrderInit /\ NnueInit /\ HceInit /\ QsInputs

\* the steps of the calls in progress
QsStep ==
    \/ Enter
    \/ Iterate
    \/ Resume
    \/ Finish

QsNext ==
    \/ QsStep
    \/ SetStop

\* a quiescence search whose calls in progress go on
SpecQsearch == InitQs /\ [][QsNext]_vars /\ WF_vars(QsStep)

\* the engine: every component takes its steps
Next ==
    \/ TTNext
    \/ ScoreNext
    \/ KillerNext
    \/ HistoryNext
    \/ TimeNext
    \/ SeeNext
    \/ OrderNext
    \/ NnueNext
    \/ HceNext
    \/ ReRootNext
    \/ QsNext

Spec == Init /\ [][Next]_vars

====
